---- MODULE Spec2Model ----
(***************************************************************************)
(* SlideNarrator: the concurrent narration pipeline                        *)
(* (core/audio_processor.py, process_all_pages) and the synthesis step of  *)
(* the wizard that drives it (ui/step_tts.py, StepTTS).                    *)
(*                                                                         *)
(* Time is exact: every duration of the program is a multiple of one       *)
(* sample period, so seconds are counted in ticks of 1/TicksPerSec second, *)
(* TicksPerSec being a common multiple of the sample rates of the model.   *)
(* Python's None is the empty tuple, a present value x is <<x>>.           *)
(***************************************************************************)
EXTENDS Integers, Sequences, FiniteSets, TLC

\* ---------------------------------------------------------------- bounds
MaxPages == 2
MaxSentences == 3
MaxPauseTicks == 3
MaxWorkers == 2
MaxClicks == 4
MaxStepSentences == 2
MaxBuffers == 3
MaxBufLen == 2
MaxHours == 1
MaxFracSteps == 2
MaxDurTicks == 1

\* ------------------------------------------------------- units and values
RateLow == 1 + 1
RateHigh == 1 + 2
Rates == {RateLow, RateHigh}
TicksPerSec == RateLow * RateHigh
SENTENCE_PAUSE_SEC == TicksPerSec \div 2

None == <<>>
Some(x) == <<x>>

\* save_wav scales a float sample by 32767 and truncates it to int16.
\* A float sample is held as a multiple of 1/(FloatSteps * PCMScale).
PCMScale == 32767
FloatSteps == 2 * 5
Peak == 9 * PCMScale + 3

Max2(a, b) == IF a >= b THEN a ELSE b
Min2(a, b) == IF a <= b THEN a ELSE b

\* ------------------------------------------------------ synthesis adapter
\* The adapter is opaque to the pipeline: a call raises, or returns
\* (samples, sample_rate).  The table gives one text per outcome class.
Texts == {"boom", "nil", "a", "bb"}

synthesize(text) ==
    CASE text = "boom" -> [raised |-> TRUE, msg |-> "boom", samples |-> <<>>, sr |-> 0]
      [] text = "nil" -> [raised |-> FALSE, msg |-> "", samples |-> <<>>, sr |-> RateHigh]
      [] text = "a" -> [raised |-> FALSE, msg |-> "", samples |-> <<Peak>>, sr |-> RateLow]
      [] text = "clip" -> [raised |-> FALSE, msg |-> "",
                           samples |-> [j \in 1..(2 * RateLow) |-> Peak], sr |-> RateLow]
      [] OTHER -> [raised |-> FALSE, msg |-> "", samples |-> <<Peak, 0 - Peak>>, sr |-> RateHigh]

\* ------------------------------------------------------------ audio helpers
generate_silence(duration_sec, sample_rate) ==
    [j \in 1..((duration_sec * sample_rate) \div TicksPerSec) |-> 0]

\* The duration counted in samples, not seconds.
Mutcalculate_duration(samples, sample_rate) == Len(samples)

calculate_duration(samples, sample_rate) ==
    Len(samples) * (TicksPerSec \div sample_rate)

\* int(x) of Python truncates toward zero; \div of TLA+ floors.
Trunc(n, d) == IF n >= 0 THEN n \div d ELSE 0 - ((0 - n) \div d)

ToPCM16(x) == Max2(0 - 32768, Min2(32767, Trunc(x, FloatSteps)))

WavOf(samples, sample_rate) ==
    [frames |-> [j \in 1..Len(samples) |-> ToPCM16(samples[j])], rate |-> sample_rate]

save_wav(fs, filepath, samples, sample_rate) ==
    (filepath :> WavOf(samples, sample_rate)) @@ fs

get_wav_duration(fs, filepath) ==
    Len(fs[filepath].frames) * (TicksPerSec \div fs[filepath].rate)

RECURSIVE JoinWith(_, _)
\* The silence also after the last segment.
MutJoinWith(segments, silence) ==
    IF Len(segments) = 1 THEN segments[1] \o silence
    ELSE segments[1] \o silence \o JoinWith(Tail(segments), silence)

JoinWith(segments, silence) ==
    IF Len(segments) = 1 THEN segments[1]
    ELSE segments[1] \o silence \o JoinWith(Tail(segments), silence)

concatenate_audio(audio_segments, pause_between_sec, sample_rate) ==
    IF audio_segments = <<>> THEN <<>>
    ELSE JoinWith(audio_segments, generate_silence(pause_between_sec, sample_rate))

\* The worker function without its try/except: the adapter's error escapes.
Mut_synthesize_one(text) ==
    LET out == synthesize(text)
    IN IF out.raised
       THEN [samples |-> None, sr |-> None, err |-> None, exc |-> Some(out.msg)]
       ELSE [samples |-> Some(out.samples), sr |-> Some(out.sr), err |-> None,
             exc |-> None]

\* The worker function: (samples, sample_rate, error_msg).  Field exc is the
\* exception that leaves the call instead of a tuple; the try/except of the
\* function catches every exception of the adapter, so it is always None.
_synthesize_one(text) ==
    LET out == synthesize(text)
    IN IF out.raised
       THEN [samples |-> None, sr |-> None, err |-> Some(out.msg), exc |-> None]
       ELSE [samples |-> Some(out.samples), sr |-> Some(out.sr), err |-> None,
             exc |-> None]

\* ------------------------------------------------------------ script model
NewSentence(text, pi, si) ==
    [text |-> text, page_index |-> pi, sentence_index |-> si,
     audio_path |-> None, duration_sec |-> 0, start_sec |-> 0]

SentencePath(page_number, sentence_index) == <<"page", page_number, "sent", sentence_index>>
PagePath(page_number) == <<"page", page_number, "full">>

total_sentences(s) ==
    LET RECURSIVE Count(_)
        Count(k) == IF k = 0 THEN 0 ELSE Len(s[k].sentences) + Count(k - 1)
    IN Count(Len(s))

\* The page sizes of a script: at most MaxPages pages, MaxSentences sentences.
PageSizes ==
    LET RECURSIVE Sum(_)
        Sum(q) == IF q = <<>> THEN 0 ELSE Head(q) + Sum(Tail(q))
    IN {q \in UNION {[1..n -> 0..MaxSentences] : n \in 1..MaxPages} : Sum(q) <= MaxSentences}

RECURSIVE TextRows(_)
TextRows(sizes) ==
    IF sizes = <<>> THEN {<<>>}
    ELSE {<<h>> \o t : h \in [1..Head(sizes) -> Texts], t \in TextRows(Tail(sizes))}

ScriptsOf(sizes) ==
    {[p \in 1..Len(sizes) |->
        [page_number |-> p, page_index |-> p - 1,
         sentences |-> [i \in 1..sizes[p] |-> NewSentence(tx[p][i], p - 1, i - 1)]]] :
     tx \in TextRows(sizes)}

Scripts == UNION {ScriptsOf(q) : q \in PageSizes}

\* ------------------------------------------------------------------ state
VARIABLES
    script,           \* Script: pages of sentences with their timing fields
    files,            \* the audio artifacts on disk: path -> wav
    tts_workers,      \* config.TTS_PARALLEL_WORKERS
    engine_sr,        \* tts_engine.sample_rate, the advertised rate
    pause_sec,        \* pause_sec, in ticks
    pc,               \* where process_all_pages is
    all_sentences,    \* the flattened (page_number, sentence) sequence
    synth_results,    \* the index-addressed result array
    futures,          \* the tasks of the pool: text, state, result
    completed_count,
    actual_sr,
    global_cursor,
    sentence_idx,
    page_pos,         \* the page of the walk, 1-based
    sent_pos,         \* i of enumerate(page.sentences)
    page_segments,
    results,          \* the per-page (audio, duration) list
    \* the synthesis step of the wizard (StepTTS and the shared state)
    is_synthesizing,  \* StepTTS._is_synthesizing
    sentence_history, \* StepTTS._sentence_history: one backup per (page, sentence)
    page_audios,      \* state.page_audios
    page_audio_paths, \* state.page_audio_paths
    sample_rate,      \* state.sample_rate
    pause_var,        \* StepTTS._pause_var, the pause slider, in ticks
    items,            \* the preview list: which buttons are enabled
    worker,           \* the background thread started by the step
    ui_walk,          \* the handler the UI thread is in the middle of
    pending,          \* callbacks queued with parent.after(0, ...)
    clicks,           \* user actions so far
    \* a pure function under check
    call,             \* the call: the function and its arguments
    ret,              \* what the call returned
    \* the wizard around the synthesis step
    nav,              \* NarratorApp: the step shown, the raw text of the script step
    edit              \* StepEdit: the page shown, its backups and its entry widgets

step == <<is_synthesizing, sentence_history, page_audios, page_audio_paths,
          sample_rate, pause_var, items, worker, ui_walk, pending, clicks>>

\* What the pipeline and the synthesis step leave alone: the call under
\* check and the rest of the wizard.
calls == <<call, ret, nav, edit>>

vars == <<script, files, calls, tts_workers, engine_sr, pause_sec, pc, all_sentences,
          synth_results, futures, completed_count, actual_sr, global_cursor,
          sentence_idx, page_pos, sent_pos, page_segments, results, step>>

inputs == <<calls, tts_workers, engine_sr, pause_sec, step>>
phase1 == <<all_sentences, synth_results, futures, completed_count>>
walk == <<script, files, actual_sr, global_cursor, sentence_idx, page_pos, sent_pos,
          page_segments, results>>

EmptySlot == [samples |-> None, sr |-> None, err |-> None, exc |-> None]

NoWorker ==
    [kind |-> "none", pc |-> "", key |-> <<>>, new_text |-> "", samples |-> <<>>,
     sr |-> 0, pause |-> 0, cursor |-> 0, k |-> 0]
NoWalk == [active |-> FALSE, key |-> <<>>, pause |-> 0, cursor |-> 0, k |-> 0]
\* No pure function is being called.
NoCall == [fn |-> ""]

\* NarratorApp.__init__ and StepEdit.__init__, nothing typed or imported.
NoNav == [current_step |-> 0, max_reached |-> 0, raw |-> <<>>, slides |-> 0]
NoEdit == [_current_page_idx |-> 0, _page_backups |-> <<>>, _sentence_items |-> <<>>,
           edits |-> 0]
NoWizard == nav = NoNav /\ edit = NoEdit

NoItems == [built |-> FALSE, editable |-> FALSE, revert |-> {}, busy |-> {}]

\* StepTTS.__init__ and SharedState.__init__; main sets state.sample_rate to
\* the rate the engine advertises.
StepInit ==
    /\ is_synthesizing = FALSE
    /\ sentence_history = {}
    /\ page_audios = <<>>
    /\ page_audio_paths = <<>>
    /\ sample_rate = engine_sr
    /\ items = NoItems
    /\ worker = NoWorker
    /\ ui_walk = NoWalk
    /\ pending = <<>>
    /\ clicks = 0

Init ==
    /\ script \in Scripts
    /\ files = <<>>
    /\ tts_workers \in 1..MaxWorkers
    /\ engine_sr \in Rates
    /\ pause_sec \in 0..MaxPauseTicks
    /\ pc = "start"
    /\ all_sentences = <<>>
    /\ synth_results = <<>>
    /\ futures = <<>>
    /\ completed_count = 0
    /\ actual_sr = None
    /\ global_cursor = 0
    /\ sentence_idx = 0
    /\ page_pos = 1
    /\ sent_pos = 0
    /\ page_segments = <<>>
    /\ results = <<>>
    /\ pause_var = pause_sec
    /\ StepInit
    /\ call = NoCall
    /\ ret = None
    /\ NoWizard

\* ------------------------------------------------- process_all_pages: phase 1
\* for page in script.pages: for sentence in page.sentences: append
RECURSIVE Flatten(_, _)
Flatten(s, p) ==
    IF p > Len(s) THEN <<>>
    ELSE [i \in 1..Len(s[p].sentences) |->
            [page_num |-> s[p].page_number, page |-> p, sent |-> i]]
         \o Flatten(s, p + 1)

TextOf(s, ref) == s[ref.page].sentences[ref.sent].text

workers == Max2(1, tts_workers)

\* Completion order drives placement: the result is appended.
MutResultSlot(idx, count) == count

\* The slot a collected result is written to: future_to_idx[future].
ResultSlot(idx, count) == idx

Start ==
    /\ pc = "start"
    /\ all_sentences' = Flatten(script, 1)
    /\ synth_results' = [k \in 1..Len(all_sentences') |-> EmptySlot]
    /\ completed_count' = 0
    /\ IF workers <= 1
       THEN /\ pc' = "sequential"
            /\ futures' = <<>>
       ELSE /\ pc' = "pool"
            /\ futures' = [k \in 1..Len(all_sentences') |->
                             [text |-> TextOf(script, all_sentences'[k]),
                              state |-> IF k <= workers THEN "running" ELSE "queued",
                              result |-> EmptySlot]]
    /\ UNCHANGED <<inputs, walk>>

\* workers <= 1: one iteration of the sequential loop.
SynthesizeNext ==
    /\ pc = "sequential"
    /\ completed_count < Len(all_sentences)
    /\ LET idx == completed_count + 1
           r == _synthesize_one(TextOf(script, all_sentences[idx]))
       IN IF r.exc # None
          THEN pc' = "raised" /\ UNCHANGED synth_results
          ELSE pc' = pc /\ synth_results' = [synth_results EXCEPT ![idx] = r]
    /\ completed_count' = completed_count + 1
    /\ UNCHANGED <<inputs, walk, all_sentences, futures>>

\* The pool runs at most `workers` tasks at a time, oldest first: the first
\* `workers` tasks start at submission, and a thread whose call of
\* _synthesize_one returns finishes its future and takes the oldest queued task.
NextQueued(k) ==
    LET queued == {j \in 1..Len(futures) : futures[j].state = "queued"}
    IN IF queued = {} THEN 0 ELSE CHOOSE j \in queued : \A i \in queued : j <= i

WorkerFinish(k) ==
    /\ pc = "pool"
    /\ futures[k].state = "running"
    /\ futures' = [j \in 1..Len(futures) |->
                     IF j = k
                     THEN [futures[j] EXCEPT !.state = "finished",
                                             !.result = _synthesize_one(futures[k].text)]
                     ELSE IF j = NextQueued(k)
                          THEN [futures[j] EXCEPT !.state = "running"]
                          ELSE futures[j]]
    /\ UNCHANGED <<inputs, walk, pc, all_sentences, synth_results, completed_count>>

\* One iteration of `for future in as_completed(future_to_idx)`.
Collect(k) ==
    /\ pc = "pool"
    /\ futures[k].state = "finished"
    /\ futures' = [futures EXCEPT ![k].state = "collected"]
    /\ IF futures[k].result.exc # None
       THEN \* future.result() raises what the task raised
            pc' = "raised" /\ UNCHANGED <<synth_results, completed_count>>
       ELSE /\ pc' = pc
            /\ synth_results' = [synth_results EXCEPT
                  ![ResultSlot(k, completed_count + 1)] = futures[k].result]
            /\ completed_count' = completed_count + 1
    /\ UNCHANGED <<inputs, walk, all_sentences>>

\* The walk starts as soon as the first result is in.
MutPhaseOneSettled == completed_count >= 1

\* Both loops of phase 1 end only when every task has settled and been stored.
PhaseOneSettled ==
    \/ pc = "sequential" /\ completed_count = Len(all_sentences)
    \/ pc = "pool" /\ \A k \in 1..Len(futures) : futures[k].state = "collected"

\* ------------------------------------------------- process_all_pages: phase 2
Succeeded(r) == r.samples # None /\ r.sr # None

\* The rate of the first successful result in the array, else None.
FirstRate(res) ==
    LET ok == {k \in 1..Len(res) : Succeeded(res[k])}
    IN IF ok = {} THEN None
       ELSE Some(res[CHOOSE k \in ok : \A j \in ok : k <= j].sr[1])

\* actual_sr if actual_sr else engine_sr
RateOr(asr, esr) == IF asr # None /\ asr[1] # 0 THEN asr[1] ELSE esr

\* The pause added as configured, not in whole samples.
MutSilenceSec(pause, sr) == pause

\* int(pause_sec * sr) / sr: the pause in whole samples, back in seconds.
SilenceSec(pause, sr) == ((pause * sr) \div TicksPerSec) * (TicksPerSec \div sr)

\* Half a second of silence for a failed sentence.
MutFallbackSec == TicksPerSec \div 2

\* The substituted silence lasts 1.0 second.
FallbackSec == TicksPerSec

BeginTimeline ==
    /\ pc \in {"sequential", "pool"}
    /\ PhaseOneSettled
    /\ actual_sr' = FirstRate(synth_results)
    /\ global_cursor' = 0
    /\ sentence_idx' = 0
    /\ page_pos' = 1
    /\ sent_pos' = 0
    /\ page_segments' = <<>>
    /\ pc' = "timeline"
    /\ UNCHANGED <<inputs, phase1, script, files, results>>

\* The walk as a record, so that one definition serves every caller.
WalkState ==
    [script |-> script, files |-> files, global_cursor |-> global_cursor,
     sentence_idx |-> sentence_idx, page_pos |-> page_pos, sent_pos |-> sent_pos,
     page_segments |-> page_segments, results |-> results]

\* The body of `for i, sentence in enumerate(page.sentences)`.
SentenceStep(w, res, asr, esr, pause) ==
    LET page == w.script[w.page_pos]
        i == w.sent_pos
        sentence == page.sentences[i + 1]
        r == res[w.sentence_idx + 1]
        cursor == IF i > 0 THEN w.global_cursor + SilenceSec(pause, RateOr(asr, esr))
                  ELSE w.global_cursor
        ok == Succeeded(r)
        wav_path == SentencePath(page.page_number, sentence.sentence_index)
        duration == IF ok THEN calculate_duration(r.samples[1], r.sr[1]) ELSE FallbackSec
        segment == IF ok THEN r.samples[1]
                   ELSE generate_silence(FallbackSec, RateOr(asr, esr))
    IN [w EXCEPT
          !.script[w.page_pos].sentences[i + 1] =
              [sentence EXCEPT !.start_sec = cursor,
                               !.duration_sec = duration,
                               !.audio_path = IF ok THEN Some(wav_path) ELSE @],
          !.files = IF ok THEN save_wav(@, wav_path, r.samples[1], r.sr[1]) ELSE @,
          !.page_segments = Append(@, segment),
          !.global_cursor = cursor + duration,
          !.sentence_idx = @ + 1,
          !.sent_pos = @ + 1]

\* After the sentences of a page: merge, persist, read the duration back.
PageStep(w, asr, esr, pause) ==
    LET page == w.script[w.page_pos]
        merge_sr == RateOr(asr, esr)
        combined == concatenate_audio(w.page_segments, pause, merge_sr)
        page_wav == PagePath(page.page_number)
        saved == save_wav(w.files, page_wav, combined, merge_sr)
    IN [w EXCEPT
          !.files = IF w.page_segments # <<>> THEN saved ELSE @,
          !.results = Append(@, IF w.page_segments # <<>>
                                THEN [audio |-> combined,
                                      duration |-> get_wav_duration(saved, page_wav)]
                                ELSE [audio |-> <<>>, duration |-> 0]),
          !.page_pos = @ + 1,
          !.sent_pos = 0,
          !.page_segments = <<>>]

SetWalk(w) ==
    /\ script' = w.script
    /\ files' = w.files
    /\ global_cursor' = w.global_cursor
    /\ sentence_idx' = w.sentence_idx
    /\ page_pos' = w.page_pos
    /\ sent_pos' = w.sent_pos
    /\ page_segments' = w.page_segments
    /\ results' = w.results

TimelineSentence ==
    /\ pc = "timeline"
    /\ page_pos <= Len(script)
    /\ sent_pos < Len(script[page_pos].sentences)
    /\ SetWalk(SentenceStep(WalkState, synth_results, actual_sr, engine_sr, pause_sec))
    /\ UNCHANGED <<inputs, phase1, pc, actual_sr>>

TimelinePage ==
    /\ pc = "timeline"
    /\ page_pos <= Len(script)
    /\ sent_pos = Len(script[page_pos].sentences)
    /\ SetWalk(PageStep(WalkState, actual_sr, engine_sr, pause_sec))
    /\ UNCHANGED <<inputs, phase1, pc, actual_sr>>

\* The summary is logged and the per-page list returned.
Return ==
    /\ pc = "timeline"
    /\ page_pos > Len(script)
    /\ pc' = "done"
    /\ UNCHANGED <<inputs, phase1, walk>>

Next ==
    \/ Start
    \/ SynthesizeNext
    \/ \E k \in 1..Len(futures) : WorkerFinish(k)
    \/ \E k \in 1..Len(futures) : Collect(k)
    \/ BeginTimeline
    \/ TimelineSentence
    \/ TimelinePage
    \/ Return

Spec == Init /\ [][Next]_vars

\* The walk from any point to its end.
RECURSIVE RunWalk(_, _, _, _, _)
RunWalk(w, res, asr, esr, pause) ==
    IF w.page_pos > Len(w.script) THEN w
    ELSE IF w.sent_pos < Len(w.script[w.page_pos].sentences)
         THEN RunWalk(SentenceStep(w, res, asr, esr, pause), res, asr, esr, pause)
         ELSE RunWalk(PageStep(w, asr, esr, pause), res, asr, esr, pause)

\* ------------------------------------------------- the synthesis step (StepTTS)
Key(pi, si) == <<pi, si>>

\* _get_sentence: the sentence of page_index pi and sentence_index si.
HasSentence(s, key) ==
    /\ key[1] + 1 \in 1..Len(s)
    /\ key[2] + 1 \in 1..Len(s[key[1] + 1].sentences)
_get_sentence(s, key) == s[key[1] + 1].sentences[key[2] + 1]

Keys(s) == {Key(p - 1, i - 1) : p \in 1..Len(s), i \in 1..MaxSentences} \cap
           {key \in (0..Len(s)) \X (0..MaxSentences) : HasSentence(s, key)}

Backup(key) == {b \in sentence_history : b.key = key}

\* process_all_pages as _synthesis_worker calls it, start to return: phase 1
\* fills the array (every order of completion fills it alike), the walk runs.
process_all_pages(s, fs, esr, pause) ==
    LET flat == Flatten(s, 1)
        res == [k \in 1..Len(flat) |-> _synthesize_one(TextOf(s, flat[k]))]
    IN RunWalk([script |-> s, files |-> fs, global_cursor |-> 0,
                sentence_idx |-> 0, page_pos |-> 1, sent_pos |-> 0,
                page_segments |-> <<>>, results |-> <<>>],
               res, FirstRate(res), esr, pause)

\* The button "start synthesis".
StartSynthesis ==
    /\ ui_walk = NoWalk
    /\ clicks < MaxClicks
    /\ ~is_synthesizing
    /\ total_sentences(script) # 0
    /\ is_synthesizing' = TRUE
    /\ sentence_history' = {}
    /\ worker' = [NoWorker EXCEPT !.kind = "synth", !.pc = "run"]
    /\ clicks' = clicks + 1
    /\ UNCHANGED <<script, files, calls, tts_workers, engine_sr, pause_sec, pc, phase1,
                   actual_sr, global_cursor, sentence_idx, page_pos, sent_pos,
                   page_segments, results, page_audios, page_audio_paths,
                   sample_rate, pause_var, items, ui_walk, pending>>

\* _synthesis_worker, in the background thread.
SynthesisWorker ==
    /\ worker.kind = "synth"
    /\ LET run == process_all_pages(script, files, engine_sr, pause_var)
           audio_paths == [p \in 1..Len(script) |-> PagePath(script[p].page_number)]
       IN /\ script' = run.script
          /\ files' = run.files
          /\ page_audios' = run.results
          /\ page_audio_paths' = audio_paths
          /\ sample_rate' = IF audio_paths # <<>> /\ audio_paths[1] \in DOMAIN run.files
                            THEN run.files[audio_paths[1]].rate
                            ELSE engine_sr
    /\ pending' = Append(pending, <<"synthesis_complete">>)
    /\ worker' = NoWorker
    /\ UNCHANGED <<calls, tts_workers, engine_sr, pause_sec, pc, phase1, actual_sr,
                   global_cursor, sentence_idx, page_pos, sent_pos, page_segments,
                   results, is_synthesizing, sentence_history, pause_var, items,
                   ui_walk, clicks>>

\* _on_synthesis_complete with _build_preview_list, on the UI thread.
OnSynthesisComplete ==
    /\ ui_walk = NoWalk
    /\ pending # <<>>
    /\ Head(pending)[1] = "synthesis_complete"
    /\ pending' = Tail(pending)
    /\ is_synthesizing' = FALSE
    /\ items' = [built |-> TRUE,
                 editable |-> \E key \in Keys(script) :
                                 _get_sentence(script, key).audio_path # None,
                 revert |-> {key \in Keys(script) : Backup(key) # {}},
                 busy |-> {}]
    /\ UNCHANGED <<script, files, calls, tts_workers, engine_sr, pause_sec, pc, phase1,
                   actual_sr, global_cursor, sentence_idx, page_pos, sent_pos,
                   page_segments, results, sentence_history, page_audios,
                   page_audio_paths, sample_rate, pause_var, worker, ui_walk, clicks>>

\* The pause slider.
SetPause(p) ==
    /\ ui_walk = NoWalk
    /\ clicks < MaxClicks
    /\ p # pause_var
    /\ pause_var' = p
    /\ clicks' = clicks + 1
    /\ UNCHANGED <<script, files, calls, tts_workers, engine_sr, pause_sec, pc, phase1,
                   actual_sr, global_cursor, sentence_idx, page_pos, sent_pos,
                   page_segments, results, is_synthesizing, sentence_history,
                   page_audios, page_audio_paths, sample_rate, items, worker,
                   ui_walk, pending>>

\* The button "regenerate" of a sentence, with the text of its entry.
Regenerate(key, new_text) ==
    /\ ui_walk = NoWalk
    /\ clicks < MaxClicks
    /\ items.built /\ items.editable /\ key \notin items.busy
    /\ HasSentence(script, key)
    /\ ~is_synthesizing
    /\ LET sentence == _get_sentence(script, key)
       IN sentence_history' =
             (sentence_history \ Backup(key)) \cup
             {[key |-> key, text |-> sentence.text, audio_path |-> sentence.audio_path,
               duration_sec |-> sentence.duration_sec]}
    /\ items' = [items EXCEPT !.busy = @ \cup {key}]
    /\ is_synthesizing' = TRUE
    /\ worker' = [NoWorker EXCEPT !.kind = "regen", !.pc = "synthesize",
                                  !.key = key, !.new_text = new_text]
    /\ clicks' = clicks + 1
    /\ UNCHANGED <<script, files, calls, tts_workers, engine_sr, pause_sec, pc, phase1,
                   actual_sr, global_cursor, sentence_idx, page_pos, sent_pos,
                   page_segments, results, page_audios, page_audio_paths,
                   sample_rate, pause_var, ui_walk, pending>>

\* _rebuild_page_audio: the page's audio from the sentence files.
ReadSamples(wav) == [j \in 1..Len(wav.frames) |-> wav.frames[j] * FloatSteps]

_rebuild_page_audio(s, fs, audios, paths, pi, sr, pause) ==
    LET page == s[pi + 1]
        segments == [i \in 1..Len(page.sentences) |->
                       LET sentence == page.sentences[i]
                       IN IF sentence.audio_path # None
                             /\ sentence.audio_path[1] \in DOMAIN fs
                          THEN ReadSamples(fs[sentence.audio_path[1]])
                          ELSE [j \in 1..sr |-> 0]]
        combined == concatenate_audio(segments, pause, sr)
        page_wav == PagePath(page.page_number)
        saved == save_wav(fs, page_wav, combined, sr)
        entry == [audio |-> combined, duration |-> get_wav_duration(saved, page_wav)]
    IN IF segments = <<>>
       THEN [files |-> fs, page_audios |-> audios, page_audio_paths |-> paths]
       ELSE [files |-> saved,
             page_audios |-> IF pi < Len(audios)
                             THEN [audios EXCEPT ![pi + 1] = entry] ELSE audios,
             page_audio_paths |-> IF pi < Len(paths)
                                  THEN [paths EXCEPT ![pi + 1] = page_wav] ELSE paths]

\* One iteration of the loop of _recalculate_timeline over the canonical
\* sequence: sentence k gets the cursor, the cursor its duration.
RecalcPause(pause, sr) == pause

RecalcStep(s, k, cursor, pause) ==
    LET ref == Flatten(s, 1)[k]
        at == IF ref.sent > 1 THEN cursor + RecalcPause(pause, sample_rate) ELSE cursor
    IN [script |-> [s EXCEPT ![ref.page].sentences[ref.sent].start_sec = at],
        cursor |-> at + s[ref.page].sentences[ref.sent].duration_sec]

\* _regen_worker, in the background thread: the call of the adapter.
RegenSynthesize ==
    /\ worker.kind = "regen"
    /\ worker.pc = "synthesize"
    /\ LET out == synthesize(worker.new_text)
       IN IF out.raised
          THEN /\ pending' = Append(pending, <<"regen_error", worker.key>>)
               /\ worker' = NoWorker
          ELSE /\ pending' = pending
               /\ worker' = [worker EXCEPT !.pc = "apply", !.samples = out.samples,
                                           !.sr = out.sr]
    /\ UNCHANGED <<script, files, calls, tts_workers, engine_sr, pause_sec, pc, phase1,
                   actual_sr, global_cursor, sentence_idx, page_pos, sent_pos,
                   page_segments, results, is_synthesizing, sentence_history,
                   page_audios, page_audio_paths, sample_rate, pause_var, items,
                   ui_walk, clicks>>

\* _regen_worker: the wav is written, the sentence updated, its page rebuilt.
RegenApply ==
    /\ worker.kind = "regen"
    /\ worker.pc = "apply"
    /\ LET key == worker.key
           sentence == _get_sentence(script, key)
           wav_path == IF sentence.audio_path # None THEN sentence.audio_path[1]
                       ELSE SentencePath(key[1] + 1, key[2])
           fs1 == save_wav(files, wav_path, worker.samples, worker.sr)
           s1 == [script EXCEPT ![key[1] + 1].sentences[key[2] + 1] =
                     [sentence EXCEPT !.text = worker.new_text,
                                      !.audio_path = Some(wav_path),
                                      !.duration_sec =
                                         calculate_duration(worker.samples, worker.sr)]]
           rb == _rebuild_page_audio(s1, fs1, page_audios, page_audio_paths, key[1],
                                     sample_rate, pause_var)
       IN /\ script' = s1
          /\ files' = rb.files
          /\ page_audios' = rb.page_audios
          /\ page_audio_paths' = rb.page_audio_paths
    /\ worker' = [worker EXCEPT !.pc = "recalculate", !.k = 0, !.cursor = 0]
    /\ UNCHANGED <<calls, tts_workers, engine_sr, pause_sec, pc, phase1, actual_sr,
                   global_cursor, sentence_idx, page_pos, sent_pos, page_segments,
                   results, is_synthesizing, sentence_history, sample_rate,
                   pause_var, items, ui_walk, pending, clicks>>

\* _regen_worker: one sentence of _recalculate_timeline; after the last one
\* _on_regen_complete is queued and the thread ends.
RegenRecalculate ==
    /\ worker.kind = "regen"
    /\ worker.pc = "recalculate"
    /\ LET k == worker.k + 1
           pause == IF worker.k = 0 THEN pause_var ELSE worker.pause
           r == RecalcStep(script, k, worker.cursor, pause)
       IN /\ script' = r.script
          /\ IF k = total_sentences(script)
             THEN /\ worker' = NoWorker
                  /\ pending' = Append(pending, <<"regen_complete", worker.key>>)
             ELSE /\ worker' = [worker EXCEPT !.k = k, !.cursor = r.cursor,
                                              !.pause = pause]
                  /\ pending' = pending
    /\ UNCHANGED <<files, calls, tts_workers, engine_sr, pause_sec, pc, phase1, actual_sr,
                   global_cursor, sentence_idx, page_pos, sent_pos, page_segments,
                   results, is_synthesizing, sentence_history, page_audios,
                   page_audio_paths, sample_rate, pause_var, items, ui_walk, clicks>>

\* _on_regen_complete, on the UI thread.
OnRegenComplete ==
    /\ ui_walk = NoWalk
    /\ pending # <<>>
    /\ Head(pending)[1] = "regen_complete"
    /\ pending' = Tail(pending)
    /\ is_synthesizing' = FALSE
    /\ items' = [items EXCEPT !.busy = @ \ {Head(pending)[2]},
                              !.revert = @ \cup {Head(pending)[2]}]
    /\ UNCHANGED <<script, files, calls, tts_workers, engine_sr, pause_sec, pc, phase1,
                   actual_sr, global_cursor, sentence_idx, page_pos, sent_pos,
                   page_segments, results, sentence_history, page_audios,
                   page_audio_paths, sample_rate, pause_var, worker, ui_walk, clicks>>

\* _on_regen_error leaving the busy flag as it is.
MutOnRegenError ==
    /\ ui_walk = NoWalk
    /\ pending # <<>>
    /\ Head(pending)[1] = "regen_error"
    /\ pending' = Tail(pending)
    /\ is_synthesizing' = is_synthesizing
    /\ items' = [items EXCEPT !.busy = @ \ {Head(pending)[2]}]
    /\ sentence_history' = sentence_history \ Backup(Head(pending)[2])
    /\ UNCHANGED <<script, files, calls, tts_workers, engine_sr, pause_sec, pc, phase1,
                   actual_sr, global_cursor, sentence_idx, page_pos, sent_pos,
                   page_segments, results, page_audios, page_audio_paths,
                   sample_rate, pause_var, worker, ui_walk, clicks>>

\* _on_regen_error, on the UI thread.
OnRegenError ==
    /\ ui_walk = NoWalk
    /\ pending # <<>>
    /\ Head(pending)[1] = "regen_error"
    /\ pending' = Tail(pending)
    /\ is_synthesizing' = FALSE
    /\ items' = [items EXCEPT !.busy = @ \ {Head(pending)[2]}]
    /\ sentence_history' = sentence_history \ Backup(Head(pending)[2])
    /\ UNCHANGED <<script, files, calls, tts_workers, engine_sr, pause_sec, pc, phase1,
                   actual_sr, global_cursor, sentence_idx, page_pos, sent_pos,
                   page_segments, results, page_audios, page_audio_paths,
                   sample_rate, pause_var, worker, ui_walk, clicks>>

\* The button "revert" of a sentence: _revert_sentence up to the page rebuild.
\* It does not look at _is_synthesizing.
RevertAllowed(key) == Backup(key) # {}

Revert(key) ==
    /\ ui_walk = NoWalk
    /\ clicks < MaxClicks
    /\ items.built /\ key \in items.revert
    /\ RevertAllowed(key)
    /\ HasSentence(script, key)
    /\ LET backup == CHOOSE b \in Backup(key) : TRUE
           sentence == _get_sentence(script, key)
           s1 == [script EXCEPT ![key[1] + 1].sentences[key[2] + 1] =
                     [sentence EXCEPT !.text = backup.text,
                                      !.audio_path = backup.audio_path,
                                      !.duration_sec = backup.duration_sec]]
           rb == _rebuild_page_audio(s1, files, page_audios, page_audio_paths, key[1],
                                     sample_rate, pause_var)
       IN /\ script' = s1
          /\ files' = rb.files
          /\ page_audios' = rb.page_audios
          /\ page_audio_paths' = rb.page_audio_paths
    /\ sentence_history' = sentence_history \ Backup(key)
    /\ ui_walk' = [NoWalk EXCEPT !.active = TRUE, !.key = key]
    /\ clicks' = clicks + 1
    /\ UNCHANGED <<calls, tts_workers, engine_sr, pause_sec, pc, phase1, actual_sr,
                   global_cursor, sentence_idx, page_pos, sent_pos, page_segments,
                   results, is_synthesizing, sample_rate, pause_var, items, worker,
                   pending>>

\* _revert_sentence: one sentence of _recalculate_timeline; after the last one
\* the item is updated and the handler returns.
RevertRecalculate ==
    /\ ui_walk.active
    /\ LET k == ui_walk.k + 1
           pause == IF ui_walk.k = 0 THEN pause_var ELSE ui_walk.pause
           r == RecalcStep(script, k, ui_walk.cursor, pause)
       IN /\ script' = r.script
          /\ IF k = total_sentences(script)
             THEN /\ ui_walk' = NoWalk
                  /\ items' = [items EXCEPT !.revert = @ \ {ui_walk.key}]
             ELSE /\ ui_walk' = [ui_walk EXCEPT !.k = k, !.cursor = r.cursor,
                                                !.pause = pause]
                  /\ items' = items
    /\ UNCHANGED <<files, calls, tts_workers, engine_sr, pause_sec, pc, phase1, actual_sr,
                   global_cursor, sentence_idx, page_pos, sent_pos, page_segments,
                   results, is_synthesizing, sentence_history, page_audios,
                   page_audio_paths, sample_rate, pause_var, worker, pending, clicks>>

\* The wizard reaches the step with a parsed script and the slider at its default.
InitUI ==
    /\ Init
    /\ total_sentences(script) \in 1..MaxStepSentences
    /\ tts_workers = 1
    /\ pause_sec = SENTENCE_PAUSE_SEC

NextUI ==
    \/ StartSynthesis
    \/ SynthesisWorker
    \/ OnSynthesisComplete
    \/ \E p \in 0..MaxPauseTicks : SetPause(p)
    \/ \E key \in Keys(script), new_text \in Texts : Regenerate(key, new_text)
    \/ RegenSynthesize
    \/ RegenApply
    \/ RegenRecalculate
    \/ OnRegenComplete
    \/ OnRegenError
    \/ \E key \in Keys(script) : Revert(key)
    \/ RevertRecalculate

SpecUI == InitUI /\ [][NextUI]_vars

\* ------------------------------------------------------------ the claims
Canon == Flatten(script, 1)
SentAt(k) == script[Canon[k].page].sentences[Canon[k].sent]
SamePage(j, k) == Canon[j].page = Canon[k].page

\* How many sentences of the canonical sequence the walk has timed.
Walked ==
    CASE pc = "timeline" -> sentence_idx
      [] pc = "done" -> Len(Canon)
      [] OTHER -> 0

\* The reference rate of the run.
RefRate == RateOr(actual_sr, engine_sr)

\* The pause in whole sample periods of the reference rate: the largest
\* multiple of one sample period that does not exceed the pause.
QuantPause ==
    LET period == TicksPerSec \div RefRate
    IN CHOOSE q \in 0..pause_sec : q % period = 0 /\ q + period > pause_sec

\* The run of process_all_pages with pool size 1, on the same script.
Unsynthesized(s) ==
    [p \in 1..Len(s) |->
       [s[p] EXCEPT !.sentences =
          [i \in 1..Len(s[p].sentences) |->
             NewSentence(s[p].sentences[i].text, s[p].sentences[i].page_index,
                         s[p].sentences[i].sentence_index)]]]

SequentialRun(s, esr, pause) ==
    LET flat == Flatten(s, 1)
        res == [k \in 1..Len(flat) |-> _synthesize_one(TextOf(s, flat[k]))]
    IN RunWalk([script |-> Unsynthesized(s), files |-> <<>>, global_cursor |-> 0,
                sentence_idx |-> 0, page_pos |-> 1, sent_pos |-> 0,
                page_segments |-> <<>>, results |-> <<>>],
               res, FirstRate(res), esr, pause)

\* C1: in every state of a run, whatever the worker count and the order in
\* which the syntheses complete, the flattened sequence is the page-major,
\* sentence-minor sequence of the script, and slot k of the result array is
\* either still unset or holds the result of synthesizing the text of
\* sentence k; once task k is collected, and throughout the walk, slot k
\* holds exactly that result.
C1_SlotHoldsOwnResult ==
    pc \in {"sequential", "pool", "timeline", "done"} =>
      /\ Len(all_sentences) = total_sentences(script)
      /\ Len(synth_results) = Len(all_sentences)
      /\ \A j, k \in 1..Len(all_sentences) :
            j < k => \/ all_sentences[j].page < all_sentences[k].page
                     \/ /\ all_sentences[j].page = all_sentences[k].page
                        /\ all_sentences[j].sent < all_sentences[k].sent
      /\ \A k \in 1..Len(synth_results) :
            LET own == _synthesize_one(TextOf(script, all_sentences[k]))
            IN /\ synth_results[k] \in {EmptySlot, own}
               /\ (pc = "pool" /\ futures[k].state = "collected") => synth_results[k] = own
               /\ (pc = "sequential" /\ k <= completed_count) => synth_results[k] = own
               /\ pc \in {"timeline", "done"} => synth_results[k] = own

\* A later sentence's result is stored while an earlier sentence, with another
\* text, is still being synthesized.
C1_Witness ==
    /\ pc = "pool"
    /\ \E j, k \in 1..Len(futures) :
          /\ j < k
          /\ futures[k].state = "collected"
          /\ futures[j].state = "running"
          /\ futures[j].text # futures[k].text

\* C2: when a run with any pool size has returned, every sentence's start_sec
\* and duration_sec and every page's duration are those of the pool-size-1
\* run on the same script, pause and engine.
C2_PoolSizeEquivalence ==
    pc = "done" =>
      LET ref == SequentialRun(script, engine_sr, pause_sec)
      IN /\ \A p \in 1..Len(script) : \A i \in 1..Len(script[p].sentences) :
              /\ script[p].sentences[i].start_sec = ref.script[p].sentences[i].start_sec
              /\ script[p].sentences[i].duration_sec
                   = ref.script[p].sentences[i].duration_sec
         /\ Len(results) = Len(ref.results)
         /\ \A p \in 1..Len(results) : results[p].duration = ref.results[p].duration

\* A parallel run has returned for a script of at least two sentences, one of
\* which fails and one of which succeeds.
C2_Witness ==
    /\ pc = "done"
    /\ workers > 1
    /\ \E j, k \in 1..Len(synth_results) :
          j < k /\ ~Succeeded(synth_results[j]) /\ Succeeded(synth_results[k])

\* C4: over the sentences the walk has timed, the first starts at 0; each
\* start_sec is the cursor before the sentence's own duration is added (the
\* cursor after sentence k is start_sec[k] + duration_sec[k]); a sentence that
\* is not first in its page starts at its predecessor's end plus the pause in
\* whole samples of the reference rate; the first sentence of a later page
\* starts exactly at its predecessor's end.
C4_WalkAssignsStarts ==
    pc \in {"timeline", "done"} =>
      /\ Walked >= 1 => SentAt(1).start_sec = 0
      /\ Walked >= 1 =>
            global_cursor = SentAt(Walked).start_sec + SentAt(Walked).duration_sec
      /\ \A k \in 1..(Walked - 1) :
            SentAt(k + 1).start_sec =
               SentAt(k).start_sec + SentAt(k).duration_sec
                 + (IF SamePage(k, k + 1) THEN QuantPause ELSE 0)

\* The walk has returned; the pause is not a whole number of samples, a
\* sentence followed its predecessor in a page and another opened a later page.
C4_Witness ==
    /\ pc = "done"
    /\ QuantPause # pause_sec
    /\ QuantPause > 0
    /\ \E k \in 1..(Len(Canon) - 1) : SamePage(k, k + 1)
    /\ \E k \in 1..(Len(Canon) - 1) : ~SamePage(k, k + 1)

\* C5: a sentence whose synthesis raised gets duration_sec = 1.0, its segment
\* in the page buffer is one second of zero samples at the reference rate, and
\* the next sentence starts 1.0 second after it, plus the pause in whole
\* samples when both are on the same page.
C5_FailureIsOneSecond ==
    pc \in {"timeline", "done"} =>
      \A k \in 1..Walked :
        synthesize(SentAt(k).text).raised =>
          /\ SentAt(k).duration_sec = TicksPerSec
          /\ (pc = "timeline" /\ Canon[k].page = page_pos) =>
                /\ Len(page_segments[Canon[k].sent]) = RefRate
                /\ \A n \in 1..RefRate : page_segments[Canon[k].sent][n] = 0
          /\ k < Walked =>
                SentAt(k + 1).start_sec =
                   SentAt(k).start_sec + TicksPerSec
                     + (IF SamePage(k, k + 1) THEN QuantPause ELSE 0)

\* A failed sentence is in the page buffer and the next sentence of the page
\* has been timed after it.
C5_Witness ==
    /\ pc = "timeline"
    /\ \E k \in 1..(Walked - 1) :
          /\ synthesize(SentAt(k).text).raised
          /\ Canon[k].page = page_pos
          /\ SamePage(k, k + 1)
          /\ QuantPause > 0

\* C6: whatever sentences fail, the run never ends with an exception and never
\* stops before it returns; when it has returned every sentence has its
\* start_sec and a positive or zero-length duration_sec assigned by the walk
\* (1.0 for a failed one), and the list has one entry per page, in page order.
C6_FailuresNeverAbort ==
    /\ pc # "raised"
    /\ pc # "done" => ENABLED Next
    /\ pc = "done" =>
         /\ Len(results) = Len(script)
         /\ \A k \in 1..Len(Canon) :
               /\ ~Succeeded(synth_results[k]) => SentAt(k).duration_sec = TicksPerSec
               /\ k > 1 => SentAt(k).start_sec
                             >= SentAt(k - 1).start_sec + SentAt(k - 1).duration_sec
         /\ \A p \in 1..Len(results) :
               IF script[p].sentences = <<>> THEN results[p].duration = 0
               ELSE results[p].duration
                      = get_wav_duration(files, PagePath(script[p].page_number))

\* The run has returned although every sentence of a script of three failed.
C6_Witness ==
    /\ pc = "done"
    /\ Len(Canon) = MaxSentences
    /\ \A k \in 1..Len(Canon) : synthesize(SentAt(k).text).raised

\* C7: a sentence for which the adapter returned no samples, without raising,
\* is handled as a failed one: duration_sec = 1.0, no audio_path, no sentence
\* artifact.
C7_EmptyIsFailure ==
    pc \in {"timeline", "done"} =>
      \A k \in 1..Walked :
        (~synthesize(SentAt(k).text).raised /\ synthesize(SentAt(k).text).samples = <<>>) =>
          /\ SentAt(k).duration_sec = TicksPerSec
          /\ SentAt(k).audio_path = None
          /\ SentencePath(script[Canon[k].page].page_number, SentAt(k).sentence_index)
               \notin DOMAIN files

\* C8: a step that changes a sentence's timing fields or audio_path, the
\* cursor, the page buffer, the per-page list or an artifact is a step of the
\* walk, taken when every synthesis task has settled and been stored; no step
\* of phase 1 changes any of them.
C8_WalkAfterAllSettled ==
    [][(<<script, files, global_cursor, page_segments, results>>'
          # <<script, files, global_cursor, page_segments, results>>)
        => /\ pc = "timeline"
           /\ completed_count = Len(all_sentences)
           /\ \A k \in 1..Len(synth_results) : synth_results[k] # EmptySlot
           /\ \A k \in 1..Len(futures) : futures[k].state = "collected"]_vars

\* The walk times a sentence after a pool of two workers settled three tasks.
C8_Witness ==
    /\ pc = "timeline"
    /\ workers > 1
    /\ Len(futures) = MaxSentences
    /\ sentence_idx >= 1

\* The timeline-mutating passes of the step that are under way.
FullPassActive == worker.kind = "synth"
RegenPassActive == worker.kind = "regen"
RevertPassActive == ui_walk.active

\* A pass ends with this step: _synthesis_worker returns from
\* process_all_pages, or a re-walk of _recalculate_timeline times its last
\* sentence.
FullPassCompletes == worker.kind = "synth" /\ worker'.kind = "none"
RegenCompletes ==
    worker.kind = "regen" /\ worker.pc = "recalculate" /\ worker'.kind = "none"
RevertCompletes == ui_walk.active /\ ~ui_walk'.active

\* C3: whenever a timeline pass has completed (process_all_pages, or the
\* re-walk after a regeneration or a revert), every consecutive pair of the
\* canonical sequence has start_sec[k+1] >= start_sec[k] + duration_sec[k],
\* with equality across a page boundary, where no pause applies.
Ordered(s) ==
    LET c == Flatten(s, 1)
        at(k) == s[c[k].page].sentences[c[k].sent]
    IN \A k \in 1..(Len(c) - 1) :
          /\ at(k + 1).start_sec >= at(k).start_sec + at(k).duration_sec
          /\ c[k].page # c[k + 1].page =>
                at(k + 1).start_sec = at(k).start_sec + at(k).duration_sec

C3_StartsOrderedAfterPass ==
    [][(FullPassCompletes \/ RegenCompletes \/ RevertCompletes) => Ordered(script')]_vars

\* C9: a full run, a single-sentence regeneration and a sentence revert never
\* overlap in time, whatever the user does in the step.
C9_PassesMutuallyExclusive ==
    /\ ~(FullPassActive /\ RevertPassActive)
    /\ ~(RegenPassActive /\ RevertPassActive)
    /\ ~(FullPassActive /\ RegenPassActive)

\* The start the Phase-2 walk of process_all_pages gives sentence k of the
\* canonical sequence, for the durations of s, the pause and the rate.
RECURSIVE WalkStart(_, _, _, _)
WalkStart(s, k, pause, sr) ==
    IF k = 1 THEN 0
    ELSE LET c == Flatten(s, 1)
             prev == s[c[k - 1].page].sentences[c[k - 1].sent]
         IN WalkStart(s, k - 1, pause, sr) + prev.duration_sec
              + (IF c[k].sent > 1 THEN SilenceSec(pause, sr) ELSE 0)

\* C10: when a single-sentence re-synthesis completes, every start_sec of the
\* script is the one the Phase-2 walk of process_all_pages assigns for the same
\* durations, the pause the re-walk read and the reference rate.
C10_RegenMatchesWalk ==
    [][RegenCompletes =>
         LET pause == IF worker.k = 0 THEN pause_var ELSE worker.pause
             c == Flatten(script', 1)
         IN \A k \in 1..Len(c) :
               script'[c[k].page].sentences[c[k].sent].start_sec
                  = WalkStart(script', k, pause, sample_rate)]_vars

\* A result that is a synthesis success: the adapter returned, with samples.
Synthesized(r) == Succeeded(r) /\ r.samples[1] # <<>>

\* The rate reported by the first successful result in canonical order, the
\* engine's advertised rate when no sentence succeeded.
FirstSuccessRate ==
    LET ok == {k \in 1..Len(synth_results) : Synthesized(synth_results[k])}
    IN IF ok = {} THEN engine_sr
       ELSE synth_results[CHOOSE k \in ok : \A j \in ok : k <= j].sr[1]

\* C11: the reference rate of a run (pauses, substituted silence, page
\* concatenation and page artifacts) is the rate of the first successful
\* result in canonical order; only when no sentence succeeds is it the
\* engine's advertised rate.
C11_RateOfFirstSuccess ==
    pc \in {"timeline", "done"} =>
      /\ RefRate = FirstSuccessRate
      /\ \A p \in 1..Len(results) :
            PagePath(script[p].page_number) \in DOMAIN files =>
               files[PagePath(script[p].page_number)].rate = FirstSuccessRate

\* abs(global_cursor - actual_total) > 0.1: the tolerance is one part in
\* ToleranceParts of a second.
ToleranceParts == 10

Abs(x) == IF x < 0 THEN -x ELSE x

WithinTolerance(a, b) == ToleranceParts * Abs(a - b) <= TicksPerSec

\* actual_total = sum(dur for _, dur in results)
RECURSIVE actual_total(_)
actual_total(res) ==
    IF res = <<>> THEN 0 ELSE Head(res).duration + actual_total(Tail(res))

\* C12: when process_all_pages returns, the subtitle-timeline total (the final
\* global cursor) and the persisted-audio total (the sum of the returned page
\* durations) agree within the 0.1 s tolerance, for every script, pause and
\* combination of synthesis outcomes.
C12_TotalsAgree ==
    pc = "done" => WithinTolerance(global_cursor, actual_total(results))

\* ------------------------------------------------ the fixed-clip scenario
\* Scripts whose every sentence gets the fixed 2.0 s clip from the adapter: the
\* clip's rate, like 48000 Hz, holds the 0.5 s pause in whole samples.
ClipScripts ==
    {[p \in 1..Len(sizes) |->
        [page_number |-> p, page_index |-> p - 1,
         sentences |-> [i \in 1..sizes[p] |-> NewSentence("clip", p - 1, i - 1)]]] :
     sizes \in PageSizes}

InitScenario ==
    /\ script \in ClipScripts
    /\ files = <<>>
    /\ tts_workers \in 1..MaxWorkers
    /\ engine_sr \in Rates
    /\ pause_sec \in 0..MaxPauseTicks
    /\ pc = "start"
    /\ all_sentences = <<>>
    /\ synth_results = <<>>
    /\ futures = <<>>
    /\ completed_count = 0
    /\ actual_sr = None
    /\ global_cursor = 0
    /\ sentence_idx = 0
    /\ page_pos = 1
    /\ sent_pos = 0
    /\ page_segments = <<>>
    /\ results = <<>>
    /\ pause_var = pause_sec
    /\ StepInit
    /\ call = NoCall
    /\ ret = None
    /\ NoWizard

SpecScenario == InitScenario /\ [][Next]_vars

\* Page.total_duration: sum(s.duration_sec for s in self.sentences)
total_duration(page) ==
    LET RECURSIVE Sum(_)
        Sum(k) == IF k = 0 THEN 0 ELSE page.sentences[k].duration_sec + Sum(k - 1)
    IN Sum(Len(page.sentences))

\* One page of three sentences, pause 0.5 s, the run returned.
ScenarioRun ==
    /\ pc = "done"
    /\ Len(script) = 1
    /\ Len(script[1].sentences) = 3
    /\ pause_sec = SENTENCE_PAUSE_SEC

ScenarioStarts ==
    /\ script[1].sentences[1].start_sec = 0
    /\ 2 * script[1].sentences[2].start_sec = 5 * TicksPerSec
    /\ script[1].sentences[3].start_sec = 5 * TicksPerSec

\* C13 as stated: in the scenario start_sec = [0.0, 2.5, 5.0] and the page's
\* total_duration is 7.0 s.
C13_ScenarioTotalDuration ==
    ScenarioRun => /\ ScenarioStarts
                   /\ total_duration(script[1]) = 7 * TicksPerSec

\* C13, amended: in the scenario start_sec = [0.0, 2.5, 5.0]; the page duration
\* that process_all_pages returns (the segment buffer with its pauses, read back
\* from the page artifact) is 7.0 s, and Page.total_duration, the sum of the
\* sentence durations without the pauses, is 6.0 s.
C13_ScenarioReturnedDuration ==
    ScenarioRun => /\ ScenarioStarts
                   /\ results[1].duration = 7 * TicksPerSec
                   /\ Len(results[1].audio) * (TicksPerSec \div RefRate) = 7 * TicksPerSec
                   /\ total_duration(script[1]) = 6 * TicksPerSec

\* The scenario, returned by a pool of two workers.
C13_Witness ==
    /\ ScenarioRun
    /\ workers > 1
    /\ \A k \in 1..Len(script[1].sentences) : script[1].sentences[k].text = "clip"

\* ------------------------------------------------ pure functions under check
\* The program at rest: nothing loaded, nothing running.
AtRest ==
    /\ script = <<>>
    /\ files = <<>>
    /\ tts_workers = 1
    /\ engine_sr = RateHigh
    /\ pause_sec = SENTENCE_PAUSE_SEC
    /\ pc = "start"
    /\ all_sentences = <<>>
    /\ synth_results = <<>>
    /\ futures = <<>>
    /\ completed_count = 0
    /\ actual_sr = None
    /\ global_cursor = 0
    /\ sentence_idx = 0
    /\ page_pos = 1
    /\ sent_pos = 0
    /\ page_segments = <<>>
    /\ results = <<>>
    /\ pause_var = pause_sec
    /\ StepInit
    /\ NoWizard

program == <<script, files, tts_workers, engine_sr, pause_sec, pc, phase1, actual_sr,
             global_cursor, sentence_idx, page_pos, sent_pos, page_segments, results,
             step, nav, edit>>

\* Sample buffers: silence-valued and peak-valued samples, empty buffers too.
SampleBuffers == UNION {[1..n -> {0, Peak}] : n \in 0..MaxBufLen}
BufferLists == UNION {[1..n -> SampleBuffers] : n \in 0..MaxBuffers}

InitConcat ==
    /\ AtRest
    /\ call \in [fn : {"concatenate_audio"}, audio_segments : BufferLists,
                 pause_between_sec : 0..MaxPauseTicks, sample_rate : Rates]
    /\ ret = None

CallConcat ==
    /\ call.fn = "concatenate_audio"
    /\ ret = None
    /\ ret' = Some(concatenate_audio(call.audio_segments, call.pause_between_sec,
                                     call.sample_rate))
    /\ UNCHANGED <<call, program>>

NextConcat == CallConcat

SpecConcat == InitConcat /\ [][NextConcat]_vars

\* floor(pause_sec * sample_rate)
GapSamples == (call.pause_between_sec * call.sample_rate) \div TicksPerSec

\* Where buffer i begins in the output, counted from 0.
RECURSIVE BufferOffset(_)
BufferOffset(i) ==
    IF i = 1 THEN 0
    ELSE BufferOffset(i - 1) + Len(call.audio_segments[i - 1]) + GapSamples

\* C14: concatenate_audio of n >= 1 buffers returns the buffers in their order
\* with exactly floor(pause_sec * sample_rate) zero samples between each
\* adjacent pair, none before the first or after the last; for n = 0 it returns
\* an empty buffer.
C14_ConcatenateLayout ==
    ret # None =>
      LET out == ret[1]
          seg == call.audio_segments
          n == Len(seg)
      IN /\ n = 0 => out = <<>>
         /\ n >= 1 =>
              /\ Len(out) = BufferOffset(n) + Len(seg[n])
              /\ \A i \in 1..n : \A j \in 1..Len(seg[i]) :
                    out[BufferOffset(i) + j] = seg[i][j]
              /\ \A i \in 1..(n - 1) : \A j \in 1..GapSamples :
                    out[BufferOffset(i) + Len(seg[i]) + j] = 0

\* Three buffers of different lengths, one ending in a zero sample and one
\* empty, and a pause of one sample and a half.
C14_Witness ==
    /\ ret # None
    /\ Len(call.audio_segments) = 3
    /\ GapSamples = 1
    /\ (call.pause_between_sec * call.sample_rate) % TicksPerSec # 0
    /\ call.audio_segments[1] = <<Peak, 0>>
    /\ call.audio_segments[2] = <<>>
    /\ call.audio_segments[3] = <<Peak>>
    /\ Len(ret[1]) = 3 + 2 * GapSamples

\* ------------------------------------------------ artifact I/O that fails
\* One run of process_all_pages meets at most one failing disk operation:
\* writing the artifact of the sentence at canonical position `at`, writing
\* the artifact of the page at position `at`, or reading that artifact back.
NoFault == [op |-> "none", at |-> 0]
IOFaults ==
    {NoFault} \cup [op : {"save_sentence"}, at : 1..MaxStepSentences]
              \cup [op : {"save_page", "read_page"}, at : 1..MaxPages]

\* The walk swallows the failure and goes on.
RECURSIVE WalkWithFault(_, _, _, _, _, _)
MutWalkWithFault(w, res, asr, esr, pause, fault) ==
    IF w.page_pos > Len(w.script) THEN [w |-> w, raised |-> FALSE]
    ELSE LET sentence == w.sent_pos < Len(w.script[w.page_pos].sentences)
             done == IF sentence THEN SentenceStep(w, res, asr, esr, pause)
                     ELSE PageStep(w, asr, esr, pause)
             hit == IF sentence
                    THEN /\ fault.op = "save_sentence"
                         /\ fault.at = w.sentence_idx + 1
                    ELSE /\ fault.op \in {"save_page", "read_page"}
                         /\ fault.at = w.page_pos
         IN WalkWithFault(IF hit THEN [done EXCEPT !.files = w.files] ELSE done,
                          res, asr, esr, pause, fault)

\* The walk of phase 2 up to the operation that fails: nothing in the walk
\* catches what save_wav or get_wav_duration raises.
WalkWithFault(w, res, asr, esr, pause, fault) ==
    IF w.page_pos > Len(w.script) THEN [w |-> w, raised |-> FALSE]
    ELSE IF w.sent_pos < Len(w.script[w.page_pos].sentences)
    THEN LET done == SentenceStep(w, res, asr, esr, pause)
             i == w.sent_pos + 1
             timed == done.script[w.page_pos].sentences[i]
         IN IF /\ fault.op = "save_sentence"
               /\ fault.at = w.sentence_idx + 1
               /\ Succeeded(res[w.sentence_idx + 1])
            THEN \* start_sec and duration_sec are set, the segment appended
                 [w |-> [w EXCEPT
                           !.script[w.page_pos].sentences[i] =
                               [@ EXCEPT !.start_sec = timed.start_sec,
                                         !.duration_sec = timed.duration_sec],
                           !.global_cursor = timed.start_sec,
                           !.page_segments = done.page_segments],
                  raised |-> TRUE]
            ELSE WalkWithFault(done, res, asr, esr, pause, fault)
    ELSE LET done == PageStep(w, asr, esr, pause)
             hit(op) == /\ fault.op = op
                        /\ fault.at = w.page_pos
                        /\ w.page_segments # <<>>
         IN IF hit("save_page") THEN [w |-> w, raised |-> TRUE]
            ELSE IF hit("read_page")
            THEN [w |-> [w EXCEPT !.files = done.files], raised |-> TRUE]
            ELSE WalkWithFault(done, res, asr, esr, pause, fault)

\* _synthesis_worker on a disk that may fail.
SynthesisWorkerIO(fault) ==
    /\ worker.kind = "synth"
    /\ LET flat == Flatten(script, 1)
           res == [k \in 1..Len(flat) |-> _synthesize_one(TextOf(script, flat[k]))]
           run == WalkWithFault([script |-> script, files |-> files,
                                 global_cursor |-> 0, sentence_idx |-> 0,
                                 page_pos |-> 1, sent_pos |-> 0,
                                 page_segments |-> <<>>, results |-> <<>>],
                                res, FirstRate(res), engine_sr, pause_var, fault)
           audio_paths == [p \in 1..Len(script) |-> PagePath(script[p].page_number)]
       IN /\ script' = run.w.script
          /\ files' = run.w.files
          /\ IF run.raised
             THEN /\ pending' = Append(pending, <<"synthesis_error">>)
                  /\ UNCHANGED <<page_audios, page_audio_paths, sample_rate>>
             ELSE /\ pending' = Append(pending, <<"synthesis_complete">>)
                  /\ page_audios' = run.w.results
                  /\ page_audio_paths' = audio_paths
                  /\ sample_rate' =
                        IF audio_paths # <<>> /\ audio_paths[1] \in DOMAIN run.w.files
                        THEN run.w.files[audio_paths[1]].rate
                        ELSE engine_sr
    /\ worker' = NoWorker
    /\ UNCHANGED <<calls, tts_workers, engine_sr, pause_sec, pc, phase1, actual_sr,
                   global_cursor, sentence_idx, page_pos, sent_pos, page_segments,
                   results, is_synthesizing, sentence_history, pause_var, items,
                   ui_walk, clicks>>

\* _on_synthesis_error, on the UI thread.
OnSynthesisError ==
    /\ ui_walk = NoWalk
    /\ pending # <<>>
    /\ Head(pending)[1] = "synthesis_error"
    /\ pending' = Tail(pending)
    /\ is_synthesizing' = FALSE
    /\ UNCHANGED <<script, files, calls, tts_workers, engine_sr, pause_sec, pc, phase1,
                   actual_sr, global_cursor, sentence_idx, page_pos, sent_pos,
                   page_segments, results, sentence_history, page_audios,
                   page_audio_paths, sample_rate, pause_var, items, worker, ui_walk,
                   clicks>>

NextIO ==
    \/ StartSynthesis
    \/ \E fault \in IOFaults : SynthesisWorkerIO(fault)
    \/ OnSynthesisComplete
    \/ OnSynthesisError
    \/ \E p \in 0..MaxPauseTicks : SetPause(p)
    \/ \E key \in Keys(script), new_text \in Texts : Regenerate(key, new_text)
    \/ RegenSynthesize
    \/ RegenApply
    \/ RegenRecalculate
    \/ OnRegenComplete
    \/ OnRegenError
    \/ \E key \in Keys(script) : Revert(key)
    \/ RevertRecalculate

SpecIO == InitUI /\ [][NextIO]_vars

\* Every artifact of a full run is on disk as the run made it: the wav of each
\* synthesized sentence under its audio_path, the wav of each page that has
\* sentences, and the page's duration is the one read back from that wav.
ArtifactsWritten(s, fs, audios) ==
    /\ Len(audios) = Len(s)
    /\ \A p \in 1..Len(s) :
          /\ \A i \in 1..Len(s[p].sentences) :
                LET sentence == s[p].sentences[i]
                    r == _synthesize_one(sentence.text)
                    wav_path == SentencePath(s[p].page_number, sentence.sentence_index)
                IN Succeeded(r) =>
                      /\ sentence.audio_path = Some(wav_path)
                      /\ wav_path \in DOMAIN fs
                      /\ fs[wav_path] = WavOf(r.samples[1], r.sr[1])
          /\ s[p].sentences # <<>> =>
                /\ PagePath(s[p].page_number) \in DOMAIN fs
                /\ Len(fs[PagePath(s[p].page_number)].frames) = Len(audios[p].audio)
                /\ audios[p].duration = get_wav_duration(fs, PagePath(s[p].page_number))

\* C15: a run of process_all_pages whose artifact I/O fails in phase 2 ends in
\* the error and hands no page list to its caller, whose stored page audios
\* stay as they were; a run that hands over a page list has written every
\* artifact and read every page back, none skipped or replaced by silence.
C15_IOFailurePropagates ==
    [][FullPassCompletes =>
         LET posted == pending'[Len(pending')][1]
         IN \/ /\ posted = "synthesis_error"
               /\ page_audios' = page_audios
               /\ page_audio_paths' = page_audio_paths
            \/ /\ posted = "synthesis_complete"
               /\ ArtifactsWritten(script', files', page_audios')]_vars

\* A second full run failed on the disk after its first sentence was timed;
\* the page audios of the first run are still the stored ones.
C15_Witness ==
    /\ pending # <<>>
    /\ Head(pending)[1] = "synthesis_error"
    /\ page_audios # <<>>
    /\ ~ArtifactsWritten(script, files, page_audios)

\* ------------------------------------------------------------ subtitles
\* Text is a sequence of one-character strings.
DigitChars == <<"0", "1", "2", "3", "4", "5", "6", "7", "8", "9">>

\* str(n) for n >= 0
RECURSIVE Decimal(_)
Decimal(n) ==
    IF n < 10 THEN <<DigitChars[n + 1]>>
    ELSE Decimal(n \div 10) \o <<DigitChars[(n % 10) + 1]>>

\* f"{n:0wd}" for n >= 0: zero-padded to at least w digits, never cut.
RECURSIVE ZeroPad(_, _)
ZeroPad(digits, w) == IF Len(digits) >= w THEN digits ELSE ZeroPad(<<"0">> \o digits, w)

SecPerHour == 3600
SecPerMin == 60
MillisPerSec == 1000
MaxMillis == 999

\* round(x) of Python for x = n / d >= 0: to the nearest, a tie to the even one.
Round(n, d) ==
    LET q == n \div d
        r == n % d
    IN IF 2 * r > d THEN q + 1
       ELSE IF 2 * r < d THEN q
       ELSE IF q % 2 = 0 THEN q ELSE q + 1

\* The millisecond field as rounded, not clamped.
MutClampMillis(millis) == millis

\* if millis >= 1000: millis = 999
ClampMillis(millis) == IF millis >= MillisPerSec THEN MaxMillis ELSE millis

\* format_srt_time(seconds) for seconds = n / d, d units to the second.
format_srt_time(n, d) ==
    LET t == IF n < 0 THEN 0 ELSE n
        hours == t \div (SecPerHour * d)
        minutes == (t % (SecPerHour * d)) \div (SecPerMin * d)
        secs == (t % (SecPerMin * d)) \div d
        millis == ClampMillis(Round((t % d) * MillisPerSec, d))
    IN ZeroPad(Decimal(hours), 2) \o <<":">> \o ZeroPad(Decimal(minutes), 2) \o <<":">>
         \o ZeroPad(Decimal(secs), 2) \o <<",">> \o ZeroPad(Decimal(millis), 3)

\* Time values in half milliseconds: around every carry of the fields, and
\* negative ones.
HalfMsPerSec == 2 * MillisPerSec

TimeValues ==
    LET frac == (0..MaxFracSteps) \cup ((HalfMsPerSec - 1 - MaxFracSteps)..(HalfMsPerSec - 1))
        edge(m) == {0, 1, m - 1}
    IN {((h * SecPerHour + m * SecPerMin + s) * HalfMsPerSec) + f :
           h \in 0..MaxHours, m \in edge(SecPerMin), s \in edge(SecPerMin), f \in frac}
       \cup {0 - f : f \in 1..(MaxFracSteps + 1)}
       \cup {0 - (SecPerHour * HalfMsPerSec)}

InitTime ==
    /\ AtRest
    /\ call \in [fn : {"format_srt_time"}, seconds : TimeValues]
    /\ ret = None

CallTime ==
    /\ call.fn = "format_srt_time"
    /\ ret = None
    /\ ret' = Some(format_srt_time(call.seconds, HalfMsPerSec))
    /\ UNCHANGED <<call, program>>

NextTime == CallTime

SpecTime == InitTime /\ [][NextTime]_vars

\* The number a string of decimal digits writes; -1 when it is not one.
DigitValue(c) ==
    IF \E v \in 0..9 : DigitChars[v + 1] = c
    THEN CHOOSE v \in 0..9 : DigitChars[v + 1] = c
    ELSE 0 - 1

RECURSIVE NumberOf(_)
NumberOf(digits) ==
    IF digits = <<>> THEN 0 - 1
    ELSE IF DigitValue(digits[Len(digits)]) < 0 THEN 0 - 1
    ELSE IF Len(digits) = 1 THEN DigitValue(digits[1])
    ELSE IF NumberOf(SubSeq(digits, 1, Len(digits) - 1)) < 0 THEN 0 - 1
    ELSE 10 * NumberOf(SubSeq(digits, 1, Len(digits) - 1)) + DigitValue(digits[Len(digits)])

\* The fields of a text HH:MM:SS,mmm, read from its right end.
TimeFields(text) ==
    LET n == Len(text)
    IN [wellformed |-> /\ n >= 12
                       /\ text[n - 3] = ","
                       /\ text[n - 6] = ":"
                       /\ text[n - 9] = ":",
        hours |-> NumberOf(SubSeq(text, 1, n - 10)),
        minutes |-> NumberOf(SubSeq(text, n - 8, n - 7)),
        secs |-> NumberOf(SubSeq(text, n - 5, n - 4)),
        millis |-> NumberOf(SubSeq(text, n - 2, n))]

\* C17: for every time value, format_srt_time writes HH:MM:SS,mmm with the
\* minutes in 0..59, the seconds in 0..59 and the milliseconds in 0..999; a
\* rounding that reaches 1000 is written as 999 with the seconds not carried;
\* a negative value is written as 00:00:00,000.
C17_TimeFieldsInRange ==
    ret # None =>
      LET f == TimeFields(ret[1])
          t == call.seconds
      IN /\ f.wellformed
         /\ f.hours >= 0
         /\ f.minutes \in 0..59
         /\ f.secs \in 0..59
         /\ f.millis \in 0..999
         /\ t < 0 => ret[1] = <<"0", "0", ":", "0", "0", ":", "0", "0", ",", "0", "0", "0">>
         /\ (t >= 0 /\ Round((t % HalfMsPerSec) * MillisPerSec, HalfMsPerSec) = MillisPerSec) =>
               /\ f.millis = 999
               /\ f.secs = (t \div HalfMsPerSec) % 60

\* 59 minutes 59.9995 seconds: the milliseconds round to 1000.
C17_Witness ==
    /\ ret # None
    /\ call.seconds = SecPerHour * HalfMsPerSec - 1
    /\ ret[1] = <<"0", "0", ":", "5", "9", ":", "5", "9", ",", "9", "9", "9">>

\* A sentence that gets no cue: only a duration below zero is skipped.
MutSkipped(sentence) == sentence.duration_sec < 0

\* if sentence.duration_sec <= 0: continue
Skipped(sentence) == sentence.duration_sec <= 0

\* The four lines of a cue: its number, its times, its text, an empty line.
CueLines(index, sentence) ==
    LET start == sentence.start_sec
        end == start + sentence.duration_sec
    IN <<Decimal(index),
         format_srt_time(start, TicksPerSec) \o <<" ", "-", "-", ">", " ">>
            \o format_srt_time(end, TicksPerSec),
         <<sentence.text>>,
         <<>>>>

\* generate_srt: the lines that "\n".join puts together, from sentence k of
\* the canonical sequence on, the next cue being number `index`.
RECURSIVE SrtLines(_, _, _)
SrtLines(s, k, index) ==
    LET flat == Flatten(s, 1)
    IN IF k > Len(flat) THEN <<>>
       ELSE LET sentence == s[flat[k].page].sentences[flat[k].sent]
            IN IF Skipped(sentence) THEN SrtLines(s, k + 1, index)
               ELSE CueLines(index, sentence) \o SrtLines(s, k + 1, index + 1)

generate_srt(s) == SrtLines(s, 1, 1)

\* Scripts as a pipeline or an editor may leave them: each sentence with its
\* own text, a start, and a duration that may be zero or below.
TextAt(k) == <<"a", "bb", "boom", "nil">>[((k - 1) % 4) + 1]

Timings == [start_sec : {0, SecPerMin * TicksPerSec - 1},
            duration_sec : (0 - 1)..MaxDurTicks]

RECURSIVE TimedRows(_)
TimedRows(sizes) ==
    IF sizes = <<>> THEN {<<>>}
    ELSE {<<h>> \o t : h \in [1..Head(sizes) -> Timings], t \in TimedRows(Tail(sizes))}

TimedScripts ==
    UNION {{[p \in 1..Len(sizes) |->
               [page_number |-> p, page_index |-> p - 1,
                sentences |-> [i \in 1..sizes[p] |->
                    [NewSentence(TextAt(MaxSentences * (p - 1) + i), p - 1, i - 1)
                       EXCEPT !.start_sec = rows[p][i].start_sec,
                              !.duration_sec = rows[p][i].duration_sec]]]] :
            rows \in TimedRows(sizes)} : sizes \in PageSizes}

InitSrt ==
    /\ AtRest
    /\ call \in [fn : {"generate_srt"}, script : TimedScripts]
    /\ ret = None

CallSrt ==
    /\ call.fn = "generate_srt"
    /\ ret = None
    /\ ret' = Some(generate_srt(call.script))
    /\ UNCHANGED <<call, program>>

NextSrt == CallSrt

SpecSrt == InitSrt /\ [][NextSrt]_vars

\* The sentences of the canonical sequence with duration_sec > 0, in order.
RECURSIVE Audible(_, _)
Audible(s, k) ==
    LET flat == Flatten(s, 1)
    IN IF k > Len(flat) THEN <<>>
       ELSE LET sentence == s[flat[k].page].sentences[flat[k].sent]
            IN (IF sentence.duration_sec > 0 THEN <<sentence>> ELSE <<>>)
                  \o Audible(s, k + 1)

\* C16: generate_srt emits one cue for each sentence with duration_sec > 0, in
\* canonical order, from start_sec to start_sec + duration_sec, numbered
\* 1, 2, ..., m; a sentence with duration_sec <= 0 gets no cue and no number.
C16_OneCuePerAudibleSentence ==
    ret # None =>
      LET lines == ret[1]
          cued == Audible(call.script, 1)
      IN /\ Len(lines) = 4 * Len(cued)
         /\ \A j \in 1..Len(cued) :
               /\ NumberOf(lines[4 * j - 3]) = j
               /\ lines[4 * j - 2] =
                     format_srt_time(cued[j].start_sec, TicksPerSec)
                        \o <<" ", "-", "-", ">", " ">>
                        \o format_srt_time(cued[j].start_sec + cued[j].duration_sec,
                                           TicksPerSec)
               /\ lines[4 * j - 1] = <<cued[j].text>>
               /\ lines[4 * j] = <<>>

\* Three sentences on two pages, one of them of duration zero: two cues.
C16_Witness ==
    /\ ret # None
    /\ Len(call.script) = 2
    /\ total_sentences(call.script) = 3
    /\ Len(Audible(call.script, 1)) = 2
    /\ \E p \in 1..2 : \E i \in 1..Len(call.script[p].sentences) :
          call.script[p].sentences[i].duration_sec = 0
    /\ Len(ret[1]) = 8
    /\ ret[1][5] = <<"2">>

\* ------------------------------------------------------------ script parser
\* A text is a sequence of characters; a character outside ASCII is named by
\* its code point.  "digits*" stands for a run of decimal digits longer than
\* int() converts when the interpreter limits the length of such strings.
BOM == "U+FEFF"
LongDigits == "digits*"
WhiteSpace == {" ", "\t"}
DigitClass == {"0", "1", "2", "3", "4", "5", "6", "7", "8", "9", LongDigits}
Colons == {":", "U+FF1A"}
OpenDecor == {"U+3010", "-", "U+2500"}
CloseDecor == {"U+3011", "-", "U+2500"}
DI == "U+7B2C"
YE == "U+9801"

\* _CN_DIGITS, as a set of <<character, value>>.
_CN_DIGITS ==
    {<<"U+4E00", 1>>, <<"U+4E8C", 2>>, <<"U+4E09", 3>>, <<"U+56DB", 4>>,
     <<"U+4E94", 5>>, <<"U+516D", 6>>, <<"U+4E03", 7>>, <<"U+516B", 8>>,
     <<"U+4E5D", 9>>, <<"U+5341", 10>>,
     <<"U+58F9", 1>>, <<"U+8CB3", 2>>, <<"U+53C3", 3>>, <<"U+8086", 4>>,
     <<"U+4F0D", 5>>, <<"U+9678", 6>>, <<"U+67D2", 7>>, <<"U+634C", 8>>,
     <<"U+7396", 9>>, <<"U+62FE", 10>>}
SHI == "U+5341"
NumeralClass == {e[1] : e \in _CN_DIGITS}

\* _CN_DIGITS.get(cn, default) for a text cn
CnDigit(cn, default) ==
    IF Len(cn) = 1 /\ cn[1] \in NumeralClass
    THEN (CHOOSE e \in _CN_DIGITS : e[1] = cn[1])[2]
    ELSE default

\* str.lower on the letters of "page"
Lower(c) ==
    CASE c = "P" -> "p" [] c = "A" -> "a" [] c = "G" -> "g" [] c = "E" -> "e"
      [] OTHER -> c

RECURSIVE lstrip(_)
lstrip(s) == IF s # <<>> /\ Head(s) \in WhiteSpace THEN lstrip(Tail(s)) ELSE s

RECURSIVE rstrip(_)
rstrip(s) ==
    IF s # <<>> /\ s[Len(s)] \in WhiteSpace THEN rstrip(SubSeq(s, 1, Len(s) - 1)) ELSE s

strip(s) == rstrip(lstrip(s))

\* The parts of s between the characters of seps: str.split(sep), re.split.
RECURSIVE SplitOn(_, _)
SplitOn(s, seps) ==
    IF \A i \in 1..Len(s) : s[i] \notin seps THEN <<s>>
    ELSE LET i == CHOOSE i \in 1..Len(s) :
                     s[i] \in seps /\ \A j \in 1..(i - 1) : s[j] \notin seps
         IN <<SubSeq(s, 1, i - 1)>> \o SplitOn(SubSeq(s, i + 1, Len(s)), seps)

\* The first position from i on that is past the end of s or holds a
\* character outside the class: where a greedy class* stops.
RECURSIVE SkipClass(_, _, _)
SkipClass(s, i, class) ==
    IF i <= Len(s) /\ s[i] \in class THEN SkipClass(s, i + 1, class) ELSE i

NoMatch == [matched |-> FALSE, number |-> <<>>, rest |-> <<>>]

\* _PAGE_EN.match: ^Page\s*(\d+)\s*[:：]\s*(.*), ignoring case
_PAGE_EN(s) ==
    LET n == Len(s)
        i1 == SkipClass(s, 5, WhiteSpace)
        i2 == SkipClass(s, i1, DigitClass)
        i3 == SkipClass(s, i2, WhiteSpace)
        i4 == SkipClass(s, i3 + 1, WhiteSpace)
    IN IF /\ n >= 4
          /\ <<Lower(s[1]), Lower(s[2]), Lower(s[3]), Lower(s[4])>> = <<"p", "a", "g", "e">>
          /\ i2 > i1
          /\ i3 <= n
          /\ s[i3] \in Colons
       THEN [matched |-> TRUE, number |-> SubSeq(s, i1, i2 - 1), rest |-> SubSeq(s, i4, n)]
       ELSE NoMatch

\* ^[【\-─]*\s*第\s*(number+)\s*頁\s*[】\-─]*\s*[:：]?\s*(.*)
PageCn(s, class) ==
    LET n == Len(s)
        i1 == SkipClass(s, SkipClass(s, 1, OpenDecor), WhiteSpace)
        i2 == SkipClass(s, i1 + 1, WhiteSpace)
        i3 == SkipClass(s, i2, class)
        i4 == SkipClass(s, i3, WhiteSpace)
        i5 == SkipClass(s, SkipClass(s, SkipClass(s, i4 + 1, WhiteSpace), CloseDecor),
                        WhiteSpace)
        i6 == IF i5 <= n /\ s[i5] \in Colons THEN i5 + 1 ELSE i5
        i7 == SkipClass(s, i6, WhiteSpace)
    IN IF /\ i1 <= n
          /\ s[i1] = DI
          /\ i3 > i2
          /\ i4 <= n
          /\ s[i4] = YE
       THEN [matched |-> TRUE, number |-> SubSeq(s, i2, i3 - 1), rest |-> SubSeq(s, i7, n)]
       ELSE NoMatch

_PAGE_CN_ARABIC(s) == PageCn(s, DigitClass)
_PAGE_CN_CHAR(s) == PageCn(s, NumeralClass)

\* int(str) of a run of decimal digits.  An interpreter that limits the
\* length of the strings it converts raises ValueError on a run longer than
\* the limit; one without the limit converts any run.
IntRaises(digits, limited) == limited /\ \E i \in 1..Len(digits) : digits[i] = LongDigits

RECURSIVE IntOf(_)
IntOf(digits) ==
    IF digits = <<>> THEN 0
    ELSE LET d == digits[Len(digits)]
             front == IntOf(SubSeq(digits, 1, Len(digits) - 1))
         IN IF d = LongDigits THEN 10 * 10 * 10 * 10 * 10 * front + 10 * 10 * 10 * 10 * 10 - 1
            ELSE 10 * front + DigitValue(d)

_chinese_num_to_int(cn) ==
    LET parts == SplitOn(cn, {SHI})
        tens == IF parts[1] # <<>> THEN CnDigit(parts[1], 0) ELSE 1
        ones == IF Len(parts) > 1 /\ parts[2] # <<>> THEN CnDigit(parts[2], 0) ELSE 0
    IN IF cn = <<>> THEN None
       ELSE IF Len(cn) = 1 /\ cn[1] \in NumeralClass THEN Some(CnDigit(cn, 0))
       ELSE IF Len(cn) = 2 /\ cn[1] = SHI /\ cn[2] \in NumeralClass
            THEN Some(10 + CnDigit(<<cn[2]>>, 0))
       ELSE IF \E i \in 1..Len(cn) : cn[i] = SHI THEN Some(tens * 10 + ones)
       ELSE None

NoHeader == [kind |-> "none"]
HeaderRaises == [kind |-> "raise"]
Header(number, rest) == [kind |-> "header", page_number |-> number, remaining |-> strip(rest)]

\* _match_page_header: the first family that matches decides.
_match_page_header(line, limited) ==
    LET stripped == strip(line)
        en == _PAGE_EN(stripped)
        ar == _PAGE_CN_ARABIC(stripped)
        ch == _PAGE_CN_CHAR(stripped)
        num == _chinese_num_to_int(ch.number)
    IN IF en.matched
       THEN IF IntRaises(en.number, limited) THEN HeaderRaises
            ELSE Header(IntOf(en.number), en.rest)
       ELSE IF ar.matched
       THEN IF IntRaises(ar.number, limited) THEN HeaderRaises
            ELSE Header(IntOf(ar.number), ar.rest)
       ELSE IF ch.matched /\ num # None THEN Header(num[1], ch.rest)
       ELSE NoHeader

_SENTENCE_TERMINATORS == {"U+3002", "U+FF01", "U+FF1F", "U+FF1B", "\n"}

_MIN_SENTENCE_LEN == 4

\* [p.strip() for p in parts if p.strip()]
RECURSIVE StrippedParts(_)
StrippedParts(parts) ==
    IF parts = <<>> THEN <<>>
    ELSE IF strip(Head(parts)) = <<>> THEN StrippedParts(Tail(parts))
    ELSE <<strip(Head(parts))>> \o StrippedParts(Tail(parts))

\* No fragment is merged.
MutMergeInto(merged, sentences) == merged \o sentences

RECURSIVE MergeInto(_, _)
MergeInto(merged, sentences) ==
    IF sentences = <<>> THEN merged
    ELSE LET s == Head(sentences)
             n == Len(merged)
         IN IF merged # <<>> /\ Len(s) < _MIN_SENTENCE_LEN
            THEN MergeInto([merged EXCEPT ![n] = merged[n] \o s], Tail(sentences))
            ELSE MergeInto(Append(merged, s), Tail(sentences))

_merge_short_sentences(sentences) == MergeInto(<<>>, sentences)

RECURSIVE TotalLen(_)
TotalLen(parts) == IF parts = <<>> THEN 0 ELSE Len(Head(parts)) + TotalLen(Tail(parts))

\* avg_len >= _MIN_SENTENCE_LEN, the average taken over the fragments
MutLongEnough(space_parts) == TRUE
LongEnough(space_parts) == TotalLen(space_parts) >= _MIN_SENTENCE_LEN * Len(space_parts)

_split_into_sentences(raw) ==
    LET text == strip(raw)
        has(seps) == \E i \in 1..Len(text) : text[i] \in seps
        space_parts == StrippedParts(SplitOn(text, {" "}))
    IN IF text = <<>> THEN <<>>
       ELSE IF has({"\n"}) THEN StrippedParts(SplitOn(text, {"\n"}))
       ELSE IF has(_SENTENCE_TERMINATORS)
            THEN _merge_short_sentences(StrippedParts(SplitOn(text, _SENTENCE_TERMINATORS)))
       ELSE IF /\ Len(space_parts) > 1
               /\ LongEnough(space_parts)
            THEN _merge_short_sentences(space_parts)
       ELSE <<text>>

\* The loop body that appends the sentences of one chunk to current_page.
AddSentences(page, texts) ==
    [page EXCEPT !.sentences =
        @ \o [k \in 1..Len(texts) |->
                 NewSentence(texts[k], page.page_index, Len(page.sentences) + k - 1)]]

NewPage(page_number, page_index) ==
    [page_number |-> page_number, page_index |-> page_index, sentences |-> <<>>]

Raised == [raised |-> TRUE, pages |-> <<>>]
Returned(pages) == [raised |-> FALSE, pages |-> pages]

\* The loop of parse_script over the lines; current_page is the last page
\* of script.pages, and None while there is no page.
RECURSIVE ParseLines(_, _, _, _)
ParseLines(lines, pages, page_index, limited) ==
    IF lines = <<>> THEN Returned(pages)
    ELSE LET stripped == strip(Head(lines))
             header == _match_page_header(stripped, limited)
             n == Len(pages)
             opened == Append(pages, NewPage(header.page_number, page_index))
             implicit == IF pages = <<>> THEN <<NewPage(1, 0)>> ELSE pages
             m == Len(implicit)
         IN IF stripped = <<>> THEN ParseLines(Tail(lines), pages, page_index, limited)
            ELSE IF header.kind = "raise" THEN Raised
            ELSE IF header.kind = "header"
            THEN ParseLines(Tail(lines),
                            [opened EXCEPT ![n + 1] =
                                AddSentences(@, _split_into_sentences(header.remaining))],
                            page_index + 1, limited)
            ELSE ParseLines(Tail(lines),
                            [implicit EXCEPT ![m] =
                                AddSentences(@, _split_into_sentences(stripped))],
                            IF pages = <<>> THEN 1 ELSE page_index, limited)

parse_script(text, limited) ==
    LET body == IF text # <<>> /\ Head(text) = BOM THEN Tail(text) ELSE text
    IN ParseLines(SplitOn(body, {"\n"}), <<>>, 0, limited)

\* The input texts: up to MaxLines lines, with or without a leading BOM.  A
\* line is a header form followed by a rest, or a content line.
MaxLines == 3

HeaderForms ==
    {<<"P", "a", "g", "e", "1", ":">>,                  \* Page1:
     <<"p", "a", "g", "e", " ", "2", " ", "U+FF1A">>,   \* page 2 ：
     <<"P", "A", "G", "E", LongDigits, ":">>,           \* PAGE<long run of digits>:
     <<DI, "2", YE, "U+FF1A">>,                         \* 第2頁：
     <<"U+3010", DI, SHI, "U+4E8C", YE, "U+3011">>,     \* 【第十二頁】
     <<DI, "U+4E00", "U+4E8C", YE, ":">>}               \* 第一二頁:

Rests ==
    {<<>>,
     <<" ", "U+4F60", "U+597D", " ", "U+4E16", "U+754C">>,                 \* 你好 世界
     <<"U+4ECA", "U+5929", "U+5929", "U+6C23", "U+5F88", "U+597D", "U+3002">>, \* 今天天氣很好。
     <<"U+3002">>}                                                         \* 。

ContentLines ==
    (Rests \ {<<>>}) \cup
    {<<" ", " ">>,
     <<"P", "a", "g", "e", "1">>,                                          \* Page1
     <<"U+4F60", "U+597D", "U+4E16", "U+754C", " ",
       "U+4ECA", "U+5929", "U+5929", "U+6C23">>}                           \* 你好世界 今天天氣

InputLines == {h \o r : h \in HeaderForms, r \in Rests} \cup ContentLines

RECURSIVE JoinLines(_)
JoinLines(lines) ==
    IF lines = <<>> THEN <<>>
    ELSE IF Len(lines) = 1 THEN lines[1]
    ELSE lines[1] \o <<"\n">> \o JoinLines(Tail(lines))

ParseInputs ==
    {prefix \o JoinLines(lines) :
        prefix \in {<<>>, <<BOM>>},
        lines \in UNION {[1..n -> InputLines] : n \in 0..MaxLines}}

InitParse ==
    /\ AtRest
    /\ call \in [fn : {"parse_script"}, text : ParseInputs]
    /\ ret = None

CallParse ==
    /\ call.fn = "parse_script"
    /\ ret = None
    /\ \E limited \in BOOLEAN : ret' = Some(parse_script(call.text, limited))
    /\ UNCHANGED <<call, program>>

NextParse == CallParse

SpecParse == InitParse /\ [][NextParse]_vars

\* The non-blank lines of a text, stripped, the BOM set aside.
ContentOf(text) ==
    StrippedParts(SplitOn(IF text # <<>> /\ Head(text) = BOM THEN Tail(text) ELSE text,
                          {"\n"}))

\* A line matches a page header when one of the three patterns accepts it.
IsHeaderLine(line) == _match_page_header(line, FALSE).kind = "header"

\* The positions of the header lines among lines, in line order.
RECURSIVE HeaderPositions(_, _)
HeaderPositions(lines, k) ==
    IF k > Len(lines) THEN <<>>
    ELSE (IF IsHeaderLine(lines[k]) THEN <<k>> ELSE <<>>) \o HeaderPositions(lines, k + 1)

\* The sentence texts of the content lines from..to, line after line.
RECURSIVE BlockTexts(_, _, _)
BlockTexts(lines, from, to) ==
    IF from > to THEN <<>>
    ELSE _split_into_sentences(lines[from]) \o BlockTexts(lines, from + 1, to)

SentenceTexts(page) == [i \in 1..Len(page.sentences) |-> page.sentences[i].text]

\* C18: for every input, parse_script creates exactly one Page per line that
\* matches a page header, in line order; the text after the header on its
\* line becomes the first sentences of that page (never of the page before),
\* and the content lines up to the next header follow them on the same page.
C18_OnePagePerHeader ==
    ret # None =>
      LET lines == ContentOf(call.text)
          hs == HeaderPositions(lines, 1)
          pages == ret[1].pages
          lead == IF lines # <<>> /\ (hs = <<>> \/ hs[1] > 1) THEN 1 ELSE 0
          last(k) == IF k < Len(hs) THEN hs[k + 1] - 1 ELSE Len(lines)
      IN /\ ~ret[1].raised
         /\ Len(pages) = Len(hs) + lead
         /\ \A k \in 1..Len(hs) :
               LET header == _match_page_header(lines[hs[k]], FALSE)
                   page == pages[k + lead]
               IN /\ page.page_number = header.page_number
                  /\ page.page_index = k + lead - 1
                  /\ SentenceTexts(page) =
                        _split_into_sentences(header.remaining)
                           \o BlockTexts(lines, hs[k] + 1, last(k))
                  /\ \A i \in 1..Len(page.sentences) :
                        /\ page.sentences[i].page_index = page.page_index
                        /\ page.sentences[i].sentence_index = i - 1

\* The same for the calls that return a Script.
C18_OnePagePerHeaderWhenReturned ==
    (ret # None /\ ~ret[1].raised) => C18_OnePagePerHeader

\* The characters of a text that are neither white space nor terminators.
RECURSIVE Letters(_)
Letters(text) ==
    IF text = <<>> THEN <<>>
    ELSE (IF Head(text) \in WhiteSpace \cup _SENTENCE_TERMINATORS THEN <<>> ELSE <<Head(text)>>)
            \o Letters(Tail(text))

RECURSIVE Concat(_)
Concat(texts) == IF texts = <<>> THEN <<>> ELSE Head(texts) \o Concat(Tail(texts))

\* The number of content lines before the first header line.
LeadingLines(text) ==
    LET lines == ContentOf(text)
        hs == HeaderPositions(lines, 1)
    IN IF hs = <<>> THEN Len(lines) ELSE hs[1] - 1

\* C19: parse_script returns a Script for every input without raising; the
\* non-empty content lines before the first page header become sentences of
\* an implicit page with page_number 1 and page_index 0, nothing of them is
\* lost, and an input with content but no header yields that single page.
C19_TotalAndKeepsLeadingContent ==
    ret # None =>
      LET lines == ContentOf(call.text)
          lead == LeadingLines(call.text)
          pages == ret[1].pages
      IN /\ ~ret[1].raised
         /\ lead >= 1 =>
               /\ pages # <<>>
               /\ pages[1].page_number = 1
               /\ pages[1].page_index = 0
               /\ Len(pages[1].sentences) >= lead
               /\ Letters(Concat(SentenceTexts(pages[1]))) =
                     Letters(Concat(SubSeq(lines, 1, lead)))
         /\ (lead >= 1 /\ lead = Len(lines)) => Len(pages) = 1

\* The input of the scenario: Page1: 你好 世界 / 第2頁： / 今天天氣很好。
ScenarioText ==
    <<"P", "a", "g", "e", "1", ":", " ", "U+4F60", "U+597D", " ", "U+4E16", "U+754C", "\n",
      DI, "2", YE, "U+FF1A", "\n",
      "U+4ECA", "U+5929", "U+5929", "U+6C23", "U+5F88", "U+597D", "U+3002">>

NiHao == <<"U+4F60", "U+597D">>
ShiJie == <<"U+4E16", "U+754C">>
JinTian == <<"U+4ECA", "U+5929", "U+5929", "U+6C23", "U+5F88", "U+597D">>

ScenarioParsed == call.text = ScenarioText /\ ret # None /\ ~ret[1].raised

\* C20: the scenario input parses to 2 pages; page 1 has the 2 sentences
\* 你好 and 世界 from the space split; page 2 has the 1 sentence 今天天氣很好
\* from the punctuation split, the trailing period consumed.
C20_ScenarioSpaceSplit ==
    (call.text = ScenarioText /\ ret # None) =>
      /\ ~ret[1].raised
      /\ Len(ret[1].pages) = 2
      /\ SentenceTexts(ret[1].pages[1]) = <<NiHao, ShiJie>>
      /\ SentenceTexts(ret[1].pages[2]) = <<JinTian>>

\* C20, as the code has it: page 1 has the 1 sentence 你好 世界, the whole
\* chunk, because the fragments of the space split average 2 characters,
\* fewer than _MIN_SENTENCE_LEN; page 2 is as stated.
C20_ScenarioWholeChunk ==
    (call.text = ScenarioText /\ ret # None) =>
      /\ ~ret[1].raised
      /\ Len(ret[1].pages) = 2
      /\ ret[1].pages[1].page_number = 1
      /\ ret[1].pages[2].page_number = 2
      /\ SentenceTexts(ret[1].pages[1]) = <<NiHao \o <<" ">> \o ShiJie>>
      /\ SentenceTexts(ret[1].pages[2]) = <<JinTian>>

C20_Witness ==
    /\ ScenarioParsed
    /\ Len(ret[1].pages) = 2
    /\ Len(ret[1].pages[1].sentences) = 1
    /\ Len(ret[1].pages[2].sentences) = 1

\* ------------------------------------------------- merging short fragments
\* Fragments: 1..MaxFragLen characters of one letter; lists of at most
\* MaxFragments of them, as the splits of strategies 2 and 3 produce them
\* (stripped, not empty).
MaxFragLen == 5
MaxFragments == 3

Fragments == {[i \in 1..n |-> c] : n \in 1..MaxFragLen, c \in {"x", "y"}}
FragmentLists == UNION {[1..n -> Fragments] : n \in 0..MaxFragments}

RECURSIVE JoinBy(_, _)
JoinBy(parts, sep) ==
    IF parts = <<>> THEN <<>>
    ELSE IF Len(parts) = 1 THEN parts[1]
    ELSE parts[1] \o <<sep>> \o JoinBy(Tail(parts), sep)

InitMerge ==
    /\ AtRest
    /\ \/ call \in [fn : {"_merge_short_sentences"}, sentences : FragmentLists]
       \/ call \in [fn : {"_split_into_sentences"}, sentences : FragmentLists,
                    sep : {"U+3002", " "}]
    /\ ret = None

CallMerge ==
    /\ call.fn = "_merge_short_sentences"
    /\ ret = None
    /\ ret' = Some(_merge_short_sentences(call.sentences))
    /\ UNCHANGED <<call, program>>

CallSplit ==
    /\ call.fn = "_split_into_sentences"
    /\ ret = None
    /\ ret' = Some(_split_into_sentences(JoinBy(call.sentences, call.sep)))
    /\ UNCHANGED <<call, program>>

NextMerge == CallMerge \/ CallSplit

SpecMerge == InitMerge /\ [][NextMerge]_vars

\* The fragments at which a returned sentence begins: the first one and
\* every later one of at least _MIN_SENTENCE_LEN characters.
RECURSIVE Openers(_, _)
Openers(fragments, k) ==
    IF k > Len(fragments) THEN <<>>
    ELSE (IF k = 1 \/ Len(fragments[k]) >= _MIN_SENTENCE_LEN THEN <<k>> ELSE <<>>)
            \o Openers(fragments, k + 1)

\* Strategy 2 or 3 was the one applied to the joined text.
Merged ==
    \/ call.fn = "_merge_short_sentences"
    \/ /\ call.fn = "_split_into_sentences"
       /\ Len(call.sentences) > 1
       /\ \/ call.sep = "U+3002"
          \/ TotalLen(call.sentences) >= _MIN_SENTENCE_LEN * Len(call.sentences)

\* C21: after punctuation or space splitting, every fragment shorter than 4
\* characters that has a predecessor is appended to the preceding output
\* fragment, never prepended to the following one: a returned sentence begins
\* at the first fragment or at a fragment of 4 or more characters and holds
\* the fragments up to the next such one; so every returned sentence but
\* possibly the first has length >= 4, and the returned sentences
\* concatenated are the fragments concatenated.
C21_ShortMergedIntoPreceding ==
    (ret # None /\ Merged) =>
      LET fragments == call.sentences
          out == ret[1]
          opens == Openers(fragments, 1)
          last(j) == IF j < Len(opens) THEN opens[j + 1] - 1 ELSE Len(fragments)
      IN /\ Len(out) = Len(opens)
         /\ \A j \in 1..Len(opens) :
               out[j] = Concat(SubSeq(fragments, opens[j], last(j)))
         /\ \A j \in 2..Len(out) : Len(out[j]) >= _MIN_SENTENCE_LEN
         /\ Concat(out) = Concat(fragments)

\* A short fragment between two long ones went to the one before it, by the
\* merge alone and by both splits.
C21_Witness ==
    /\ ret # None
    /\ Merged
    /\ Len(call.sentences) = 3
    /\ Len(call.sentences[1]) >= _MIN_SENTENCE_LEN
    /\ Len(call.sentences[2]) < _MIN_SENTENCE_LEN
    /\ Len(call.sentences[3]) >= _MIN_SENTENCE_LEN
    /\ call.sentences[1][1] # call.sentences[2][1]
    /\ ret[1] = <<call.sentences[1] \o call.sentences[2], call.sentences[3]>>

\* ------------------------------------------------------------ validate_script
\* Scripts as validate_script may be given them: up to MaxValPages pages,
\* any page numbers of 1..MaxPageNumber, pages with and without a sentence.
MaxValPages == 3
MaxPageNumber == 3
MaxSlides == 3

ValPages ==
    {[page_number |-> n, page_index |-> 0,
      sentences |-> [i \in 1..k |-> NewSentence("a", 0, i - 1)]] :
        n \in 1..MaxPageNumber, k \in 0..1}

ValScripts ==
    UNION {{[p \in 1..n |-> [q[p] EXCEPT !.page_index = p - 1,
                                          !.sentences = [i \in 1..Len(q[p].sentences) |->
                                                            NewSentence("a", p - 1, i - 1)]]] :
              q \in [1..n -> ValPages]} : n \in 0..MaxValPages}

\* The warnings, by what their messages report.
NoPagesWarning == <<"no pages">>
NoSentencesWarning(page_number) == <<"no sentences", page_number>>
GapWarning(before, after) == <<"not consecutive", before, after>>
CountWarning(script_pages, slide_count) == <<"page count", script_pages, slide_count>>

RECURSIVE EmptyPageWarnings(_)
EmptyPageWarnings(pages) ==
    IF pages = <<>> THEN <<>>
    ELSE (IF Head(pages).sentences = <<>>
          THEN <<NoSentencesWarning(Head(pages).page_number)>> ELSE <<>>)
            \o EmptyPageWarnings(Tail(pages))

RECURSIVE GapWarnings(_, _)
GapWarnings(pages, i) ==
    IF i > Len(pages) THEN <<>>
    ELSE (IF pages[i].page_number # pages[i - 1].page_number + 1
          THEN <<GapWarning(pages[i - 1].page_number, pages[i].page_number)>> ELSE <<>>)
            \o GapWarnings(pages, i + 1)

\* The cross-check against the slides, without its test of slide_count.
MutCountWarnings(pages, slide_count) ==
    IF Len(pages) # slide_count THEN <<CountWarning(Len(pages), slide_count)>> ELSE <<>>

CountWarnings(pages, slide_count) ==
    IF slide_count > 0 /\ Len(pages) # slide_count
    THEN <<CountWarning(Len(pages), slide_count)>>
    ELSE <<>>

validate_script(s, slide_count) ==
    IF s = <<>> THEN <<NoPagesWarning>>
    ELSE EmptyPageWarnings(s) \o GapWarnings(s, 2) \o CountWarnings(s, slide_count)

InitValidate ==
    /\ AtRest
    /\ call \in [fn : {"validate_script"}, script : ValScripts, slide_count : (0 - 1)..MaxSlides]
    /\ ret = None

CallValidate ==
    /\ call.fn = "validate_script"
    /\ ret = None
    /\ ret' = Some(validate_script(call.script, call.slide_count))
    /\ UNCHANGED <<call, program>>

NextValidate == CallValidate

SpecValidate == InitValidate /\ [][NextValidate]_vars

\* The checks of the claim, and how many of them a script violates.
HasPage(s) == s # <<>>
EveryPageHasSentence(s) == \A p \in 1..Len(s) : s[p].sentences # <<>>
Consecutive(s) == \A p \in 2..Len(s) : s[p].page_number = s[p - 1].page_number + 1
CountMatches(s, slide_count) == slide_count <= 0 \/ Len(s) = slide_count

Violations(s, slide_count) ==
    (IF HasPage(s) THEN 0 ELSE 1)
    + Cardinality({p \in 1..Len(s) : s[p].sentences = <<>>})
    + Cardinality({p \in 2..Len(s) : s[p].page_number # s[p - 1].page_number + 1})
    + (IF CountMatches(s, slide_count) THEN 0 ELSE 1)

IsCountWarning(w) == w[1] = "page count"

EmptyExactlyWhenValid ==
    ret # None =>
      (ret[1] = <<>> <=>
         /\ HasPage(call.script)
         /\ EveryPageHasSentence(call.script)
         /\ Consecutive(call.script)
         /\ CountMatches(call.script, call.slide_count))

CountWarningOnlyWithSlides ==
    ret # None =>
      ((\E i \in 1..Len(ret[1]) : IsCountWarning(ret[1][i])) => call.slide_count > 0)

\* C22: validate_script never raises and returns an empty warning list
\* exactly when the script has a page, every page has a sentence, the page
\* numbers are consecutive and slide_count <= 0 or equals the page count;
\* each violated check contributes a warning, and a page-count mismatch is
\* reported only when slide_count > 0.
C22_WarningPerViolatedCheck ==
    /\ EmptyExactlyWhenValid
    /\ CountWarningOnlyWithSlides
    /\ ret # None => Len(ret[1]) = Violations(call.script, call.slide_count)

\* C22, as the code has it: a script without pages gets the one warning that
\* it has no pages, whatever slide_count is; for a script with pages each
\* violated check contributes a warning.
C22_WarningPerCheckOfNonEmptyScript ==
    /\ EmptyExactlyWhenValid
    /\ CountWarningOnlyWithSlides
    /\ ret # None =>
         IF HasPage(call.script)
         THEN /\ Len(ret[1]) = Violations(call.script, call.slide_count)
              /\ (\E i \in 1..Len(ret[1]) : IsCountWarning(ret[1][i]))
                    <=> ~CountMatches(call.script, call.slide_count)
         ELSE ret[1] = <<NoPagesWarning>>

\* A script with pages that violates every check: three warnings.
C22_Witness ==
    /\ ret # None
    /\ Len(call.script) = 2
    /\ ~EveryPageHasSentence(call.script)
    /\ ~Consecutive(call.script)
    /\ call.slide_count = 3
    /\ Len(ret[1]) = 3
    /\ IsCountWarning(ret[1][3])

\* ------------------------------------------------------- the edit step (StepEdit)
\* state.script is None while nothing is parsed: the empty sequence.
MaxEdits == 2

\* The sentences keep the numbers they had.
MutRenumber(sentences) == sentences

\* for i, s in enumerate(page.sentences): s.sentence_index = i
Renumber(sentences) ==
    [i \in 1..Len(sentences) |-> [sentences[i] EXCEPT !.sentence_index = i - 1]]

ItemsOf(page) == [i \in 1..Len(page.sentences) |-> page.sentences[i].text]

\* _load_page: the page shown and its entry widgets.
_load_page(s, e, page_idx) ==
    IF s = <<>> \/ page_idx < 0 \/ page_idx >= Len(s) THEN e
    ELSE [e EXCEPT !._current_page_idx = page_idx,
                   !._sentence_items = ItemsOf(s[page_idx + 1])]

\* on_enter: a backup for every page_index that has none, then page 0.
EditOnEnter(s, e) ==
    IF s = <<>> THEN e
    ELSE LET old == e._page_backups
             keys == DOMAIN old \cup {s[p].page_index : p \in 1..Len(s)}
             first(k) == CHOOSE p \in 1..Len(s) :
                            s[p].page_index = k /\ \A q \in 1..(p - 1) : s[q].page_index # k
             backups == [k \in keys |-> IF k \in DOMAIN old THEN old[k]
                                        ELSE s[first(k)].sentences]
         IN _load_page(s, [e EXCEPT !._page_backups = backups, !._current_page_idx = 0], 0)

\* _save_current_page_edits: sentence i of the page takes current_text of
\* widget i, the entry's text stripped.
_save_current_page_edits(s, e) ==
    IF s = <<>> \/ e._current_page_idx >= Len(s) THEN s
    ELSE [s EXCEPT ![e._current_page_idx + 1].sentences =
             [i \in 1..Len(@) |-> IF i <= Len(e._sentence_items)
                                  THEN [@[i] EXCEPT !.text = strip(e._sentence_items[i])]
                                  ELSE @[i]]]

RemoveAt(q, k) == SubSeq(q, 1, k - 1) \o SubSeq(q, k + 1, Len(q))
InsertAt(q, k, x) == SubSeq(q, 1, k - 1) \o <<x>> \o SubSeq(q, k, Len(q))

\* A Sentence object and which object it is: uid tells two sentences of equal
\* fields apart.
Identified(sentence, uid) ==
    [text |-> sentence.text, page_index |-> sentence.page_index,
     sentence_index |-> sentence.sentence_index, audio_path |-> sentence.audio_path,
     duration_sec |-> sentence.duration_sec, start_sec |-> sentence.start_sec,
     uid |-> uid]

\* [copy.copy(s) for s in backup]: new objects with the fields of the old.
Copies(sentences, n) ==
    [i \in 1..Len(sentences) |-> [sentences[i] EXCEPT !.uid = <<"copy", n, i>>]]

\* The page after pop(index) and after insert(after_index + 1, new).
Popped(page, index) == [page EXCEPT !.sentences = Renumber(RemoveAt(@, index + 1))]
\* The page is rebuilt from the texts of its sentences.
MutInserted(page, after_index, uid) ==
    [page EXCEPT !.sentences =
        LET q == InsertAt(@, after_index + 2,
                          Identified(NewSentence(<<>>, page.page_index, after_index + 1), uid))
        IN [i \in 1..Len(q) |->
               Identified(NewSentence(q[i].text, page.page_index, i - 1), q[i].uid)]]

Inserted(page, after_index, uid) ==
    [page EXCEPT !.sentences =
        Renumber(InsertAt(@, after_index + 2,
                          Identified(NewSentence(<<>>, page.page_index, after_index + 1),
                                     uid)))]

EditState(s, e) == [script |-> s, edit |-> e]

_delete_sentence(s, e, index) ==
    LET p == e._current_page_idx + 1
        saved == _save_current_page_edits(s, e)
        after == [saved EXCEPT ![p] = Popped(@, index)]
    IN IF s = <<>> \/ Len(s[p].sentences) <= 1 THEN EditState(s, e)
       ELSE EditState(after, [e EXCEPT !._sentence_items = ItemsOf(after[p])])

_insert_sentence(s, e, after_index) ==
    LET p == e._current_page_idx + 1
        saved == _save_current_page_edits(s, e)
        after == [saved EXCEPT ![p] = Inserted(@, after_index, <<"inserted", e.edits>>)]
    IN IF s = <<>> THEN EditState(s, e)
       ELSE EditState(after, [e EXCEPT !._sentence_items = ItemsOf(after[p])])

_revert_page(s, e) ==
    LET p == e._current_page_idx + 1
        k == s[p].page_index
        after == [s EXCEPT ![p].sentences = Copies(e._page_backups[k], e.edits)]
    IN IF s = <<>> \/ k \notin DOMAIN e._page_backups \/ e._page_backups[k] = <<>>
       THEN EditState(s, e)
       ELSE EditState(after, [e EXCEPT !._sentence_items = ItemsOf(after[p])])

\* _prev_page, _next_page, _jump_to_page
_turn_page(s, e, page_idx) ==
    LET saved == _save_current_page_edits(s, e)
    IN EditState(saved, _load_page(saved, e, page_idx))

EditOnLeave(s, e) ==
    LET saved == _save_current_page_edits(s, e)
    IN [p \in 1..Len(saved) |-> [saved[p] EXCEPT !.sentences = Renumber(@)]]

EditCanProceed(s) ==
    /\ s # <<>>
    /\ \A p \in 1..Len(s) :
          /\ s[p].sentences # <<>>
          /\ \A i \in 1..Len(s[p].sentences) : strip(s[p].sentences[i].text) # <<>>

\* ------------------------------------------------ the wizard (NarratorApp)
STEPS == <<"welcome", "slides", "script", "edit", "tts", "export">>
SLIDES_STEP == 1
SCRIPT_STEP == 2
EDIT_STEP == 3
TTS_STEP == 4
\* StepExport, the handler of the last step, is not among the sources: the
\* steps modelled are those before it.
EXPORT_STEP == 5

MaxRuns == 2

\* The Sentence objects parse_script creates, told apart by their place.
Parsed(pages) ==
    [p \in 1..Len(pages) |->
        [pages[p] EXCEPT !.sentences =
            [i \in 1..Len(@) |-> Identified(@[i], <<"parsed", p, i>>)]]]

\* StepScript.get_script: a non-empty text is parsed again and the result
\* replaces state.script.
get_script(s, raw) ==
    IF strip(raw) # <<>> THEN Parsed(parse_script(strip(raw), FALSE).pages) ELSE s

\* StepScript.can_proceed
ScriptCanProceed(s, slides) ==
    /\ s # <<>>
    /\ total_sentences(s) # 0
    /\ ~(slides > 0 /\ Len(s) # slides)

\* _validate_step: whether the step may be left, and state.script after it.
_validate_step(s, n, e, audios) ==
    CASE n.current_step = SLIDES_STEP -> [ok |-> n.slides > 0, script |-> s]
      [] n.current_step = SCRIPT_STEP ->
            LET parsed == get_script(s, n.raw)
            IN [ok |-> ScriptCanProceed(parsed, n.slides), script |-> parsed]
      [] n.current_step = EDIT_STEP ->
            LET left == EditOnLeave(s, e)
            IN [ok |-> EditCanProceed(left), script |-> left]
      [] n.current_step = TTS_STEP -> [ok |-> audios # <<>>, script |-> s]
      [] OTHER -> [ok |-> TRUE, script |-> s]

\* goto_step: on_leave of the step shown, on_enter of the step reached.
goto_step(s, n, e, index) ==
    LET left == IF n.current_step = EDIT_STEP THEN EditOnLeave(s, e) ELSE s
    IN [script |-> left,
        nav |-> [n EXCEPT !.current_step = index,
                          !.max_reached = IF index > @ THEN index ELSE @],
        edit |-> IF index = EDIT_STEP THEN EditOnEnter(left, e) ELSE e]

Background == <<files, tts_workers, engine_sr, pause_sec, pc, phase1, actual_sr,
                global_cursor, sentence_idx, page_pos, sent_pos, page_segments, results,
                step, call, ret>>

SetWizard(to) ==
    /\ script' = to.script
    /\ nav' = to.nav
    /\ edit' = to.edit

\* The button "next".  The script step is not left while a synthesis run
\* holds the Script it was given.
next_step ==
    /\ ui_walk = NoWalk
    /\ nav.current_step + 1 < EXPORT_STEP
    /\ ~(nav.current_step = SCRIPT_STEP /\ worker # NoWorker)
    /\ LET checked == _validate_step(script, nav, edit, page_audios)
       IN IF checked.ok
          THEN SetWizard(goto_step(checked.script, nav, edit, nav.current_step + 1))
          ELSE script' = checked.script /\ UNCHANGED <<nav, edit>>
    /\ UNCHANGED Background

\* The button "previous".
prev_step ==
    /\ ui_walk = NoWalk
    /\ nav.current_step > 0
    /\ SetWizard(goto_step(script, nav, edit, nav.current_step - 1))
    /\ UNCHANGED Background

\* A click on a step of the sidebar that was reached before.
SidebarClick(index) ==
    /\ ui_walk = NoWalk
    /\ index <= nav.max_reached
    /\ index # nav.current_step
    /\ SetWizard(goto_step(script, nav, edit, index))
    /\ UNCHANGED Background

\* The user types in entry i of the page shown.
TypedTexts == {<<>>, <<" ", "z">>}

InEditStep == nav.current_step = EDIT_STEP /\ script # <<>> /\ ui_walk = NoWalk

SetEdit(to) ==
    /\ script' = to.script
    /\ edit' = [to.edit EXCEPT !.edits = @ + 1]

TypeText(i, text) ==
    /\ InEditStep
    /\ edit.edits < MaxEdits
    /\ i \in 1..Len(edit._sentence_items)
    /\ edit._sentence_items[i] # text
    /\ edit' = [edit EXCEPT !._sentence_items[i] = text, !.edits = @ + 1]
    /\ UNCHANGED <<script, nav, Background>>

DeleteSentence(index) ==
    /\ InEditStep
    /\ edit.edits < MaxEdits
    /\ index + 1 \in 1..Len(edit._sentence_items)
    /\ SetEdit(_delete_sentence(script, edit, index))
    /\ UNCHANGED <<nav, Background>>

InsertSentence(after_index) ==
    /\ InEditStep
    /\ edit.edits < MaxEdits
    /\ after_index + 1 \in 1..Len(edit._sentence_items)
    /\ SetEdit(_insert_sentence(script, edit, after_index))
    /\ UNCHANGED <<nav, Background>>

RevertPage ==
    /\ InEditStep
    /\ edit.edits < MaxEdits
    /\ SetEdit(_revert_page(script, edit))
    /\ UNCHANGED <<nav, Background>>

\* _prev_page, _next_page and a click on a thumbnail.
TurnPage(page_idx) ==
    /\ InEditStep
    /\ page_idx # edit._current_page_idx
    /\ page_idx \in 0..(Len(script) - 1)
    /\ LET to == _turn_page(script, edit, page_idx)
       IN script' = to.script /\ edit' = to.edit
    /\ UNCHANGED <<nav, Background>>

\* The raw text of the script step: Page1:abcd / efgh / Page2:ijkl, for a
\* deck of two slides.
RawText ==
    <<"P", "a", "g", "e", "1", ":", "a", "b", "c", "d", "\n",
      "e", "f", "g", "h", "\n",
      "P", "a", "g", "e", "2", ":", "i", "j", "k", "l">>

\* What the engine does with a text: a blank one makes synthesize raise,
\* any other is a clip of the stub table.
EngineText(text) == IF strip(text) = <<>> THEN "boom" ELSE "bb"

\* all_sentences of a run: (page_number, sentence), the sentence by its
\* identity and the text it had when it was submitted.
Submitted(s) ==
    LET flat == Flatten(s, 1)
    IN [k \in 1..Len(flat) |->
           [page_num |-> flat[k].page_num,
            uid |-> s[flat[k].page].sentences[flat[k].sent].uid,
            text |-> TextOf(s, flat[k])]]

\* The button "start synthesis" of the synthesis step.
WizardStart ==
    /\ nav.current_step = TTS_STEP
    /\ clicks < MaxRuns
    /\ StartSynthesis

\* process_all_pages up to the end of the synthesis of the sentences it
\* flattened when it was called.
WorkerSynthesize ==
    /\ worker.kind = "synth"
    /\ worker.pc = "run"
    /\ all_sentences' = Submitted(script)
    /\ synth_results' = [k \in 1..Len(Submitted(script)) |->
                            _synthesize_one(EngineText(Submitted(script)[k].text))]
    /\ worker' = [worker EXCEPT !.pc = "walk"]
    /\ UNCHANGED <<script, files, calls, tts_workers, engine_sr, pause_sec, pc, futures,
                   completed_count, actual_sr, global_cursor, sentence_idx, page_pos,
                   sent_pos, page_segments, results, is_synthesizing, sentence_history,
                   page_audios, page_audio_paths, sample_rate, pause_var, items, ui_walk,
                   pending, clicks>>

\* The walk over script.pages as they are now; synth_results[sentence_idx]
\* raises IndexError past the end of the array.
RECURSIVE WalkPages(_, _, _, _, _)
WalkPages(w, res, asr, esr, pause) ==
    IF w.page_pos > Len(w.script) THEN [raised |-> FALSE, walk |-> w]
    ELSE IF w.sent_pos < Len(w.script[w.page_pos].sentences)
         THEN IF w.sentence_idx + 1 > Len(res) THEN [raised |-> TRUE, walk |-> w]
              ELSE WalkPages(SentenceStep(w, res, asr, esr, pause), res, asr, esr, pause)
         ELSE WalkPages(PageStep(w, asr, esr, pause), res, asr, esr, pause)

\* The rest of _synthesis_worker: the walk, then the shared state and the
\* callback, or the except clause.
WorkerWalk ==
    /\ worker.kind = "synth"
    /\ worker.pc = "walk"
    /\ LET out == WalkPages([script |-> script, files |-> files, global_cursor |-> 0,
                             sentence_idx |-> 0, page_pos |-> 1, sent_pos |-> 0,
                             page_segments |-> <<>>, results |-> <<>>],
                            synth_results, FirstRate(synth_results), engine_sr, pause_var)
           audio_paths == [p \in 1..Len(script) |-> PagePath(script[p].page_number)]
       IN /\ script' = out.walk.script
          /\ files' = out.walk.files
          /\ IF out.raised
             THEN /\ pending' = Append(pending, <<"synthesis_error">>)
                  /\ UNCHANGED <<page_audios, page_audio_paths, sample_rate>>
             ELSE /\ pending' = Append(pending, <<"synthesis_complete">>)
                  /\ page_audios' = out.walk.results
                  /\ page_audio_paths' = audio_paths
                  /\ sample_rate' = IF audio_paths # <<>>
                                       /\ audio_paths[1] \in DOMAIN out.walk.files
                                    THEN out.walk.files[audio_paths[1]].rate
                                    ELSE engine_sr
    /\ worker' = NoWorker
    /\ UNCHANGED <<calls, tts_workers, engine_sr, pause_sec, pc, phase1, actual_sr,
                   global_cursor, sentence_idx, page_pos, sent_pos, page_segments,
                   results, is_synthesizing, sentence_history, pause_var, items,
                   ui_walk, clicks>>

\* The script step shown, its text typed and the slides imported; nothing
\* parsed yet.
InitWizard ==
    /\ script = <<>>
    /\ files = <<>>
    /\ tts_workers = 1
    /\ engine_sr = RateHigh
    /\ pause_sec = SENTENCE_PAUSE_SEC
    /\ pc = "start"
    /\ all_sentences = <<>>
    /\ synth_results = <<>>
    /\ futures = <<>>
    /\ completed_count = 0
    /\ actual_sr = None
    /\ global_cursor = 0
    /\ sentence_idx = 0
    /\ page_pos = 1
    /\ sent_pos = 0
    /\ page_segments = <<>>
    /\ results = <<>>
    /\ pause_var = pause_sec
    /\ StepInit
    /\ call = NoCall
    /\ ret = None
    /\ nav = [current_step |-> SCRIPT_STEP, max_reached |-> SCRIPT_STEP, raw |-> RawText,
              slides |-> 2]
    /\ edit = NoEdit

NextWizard ==
    \/ next_step
    \/ prev_step
    \/ \E index \in 0..TTS_STEP : SidebarClick(index)
    \/ \E i \in 1..(MaxSentences + MaxEdits) : \E text \in TypedTexts : TypeText(i, text)
    \/ \E index \in 0..(MaxSentences + MaxEdits) : DeleteSentence(index)
    \/ \E index \in 0..(MaxSentences + MaxEdits) : InsertSentence(index)
    \/ RevertPage
    \/ \E page_idx \in 0..MaxPages : TurnPage(page_idx)
    \/ WizardStart
    \/ WorkerSynthesize
    \/ WorkerWalk
    \/ OnSynthesisComplete
    \/ OnSynthesisError

SpecWizard == InitWizard /\ [][NextWizard]_vars

\* C23: after parse_script and after any sequence of sentence inserts,
\* sentence deletes and page reverts of the edit step, every page's
\* page_index is its position in script.pages, every sentence's
\* sentence_index is its position in its page (0-based, contiguous), and
\* every sentence's page_index is that of its page.
C23_IndexesArePositions ==
    \A p \in 1..Len(script) :
       /\ script[p].page_index = p - 1
       /\ \A i \in 1..Len(script[p].sentences) :
             /\ script[p].sentences[i].sentence_index = i - 1
             /\ script[p].sentences[i].page_index = script[p].page_index

\* A sentence was inserted before a parsed one, which moved up, and the
\* other page was reverted.
C23_Witness ==
    /\ Len(script) = 2
    /\ Len(script[1].sentences) = 3
    /\ script[1].sentences[2].uid[1] = "inserted"
    /\ script[1].sentences[3].uid[1] = "parsed"
    /\ script[1].sentences[3].sentence_index = 2
    /\ script[2].sentences[1].uid[1] = "copy"

\* The Sentence objects of a script, and the one of a given identity.
Objects(s) == {s[p].sentences[i] : <<p, i>> \in {<<p, i>> \in (1..Len(s)) \X (1..(MaxSentences + MaxEdits)) : i <= Len(s[p].sentences)}}
Uids(s) == {o.uid : o \in Objects(s)}
ObjectOf(s, uid) == CHOOSE o \in Objects(s) : o.uid = uid

\* The sentences of the page shown whose entry holds another text than the
\* sentence: those the next save re-texts.
Retexted ==
    IF script = <<>> \/ edit._current_page_idx >= Len(script) THEN {}
    ELSE LET sentences == script[edit._current_page_idx + 1].sentences
         IN {sentences[i].uid : i \in {i \in 1..Len(sentences) :
                                          /\ i <= Len(edit._sentence_items)
                                          /\ strip(edit._sentence_items[i]) # sentences[i].text}}

\* An insert, a delete or a re-text of the edit step: the buttons of an
\* entry, typing, and what saves the entries of the page (turning the page,
\* leaving the step).
SentenceEdit ==
    \/ \E i \in 1..(MaxSentences + MaxEdits) : \E text \in TypedTexts : TypeText(i, text)
    \/ \E index \in 0..(MaxSentences + MaxEdits) : DeleteSentence(index)
    \/ \E index \in 0..(MaxSentences + MaxEdits) : InsertSentence(index)
    \/ \E page_idx \in 0..MaxPages : TurnPage(page_idx)
    \/ /\ nav.current_step = EDIT_STEP
       /\ next_step \/ prev_step \/ \E index \in 0..TTS_STEP : SidebarClick(index)

\* C24: a sentence edit of the edit step (insert, delete, re-text) changes
\* the Script in place: every sentence other than the inserted, deleted or
\* re-texted one is the same object after it, with its text, duration_sec,
\* start_sec and audio_path unchanged; at most one sentence goes and at most
\* one is new.
C24_EditsInPlace ==
    [][SentenceEdit =>
          /\ Len(script') = Len(script)
          /\ Cardinality(Uids(script) \ Uids(script')) <= 1
          /\ Cardinality(Uids(script') \ Uids(script)) <= 1
          /\ \A uid \in (Uids(script) \cap Uids(script')) \ Retexted :
                LET before == ObjectOf(script, uid)
                    after == ObjectOf(script', uid)
                IN /\ after.text = before.text
                   /\ after.duration_sec = before.duration_sec
                   /\ after.start_sec = before.start_sec
                   /\ after.audio_path = before.audio_path]_vars

\* A sentence inserted between two synthesized ones, which keep their audio
\* and their timing.
C24_Witness ==
    /\ Len(script) = 2
    /\ Len(script[1].sentences) = 3
    /\ script[1].sentences[2].uid[1] = "inserted"
    /\ script[1].sentences[1].audio_path # None
    /\ script[1].sentences[3].audio_path # None
    /\ script[1].sentences[3].start_sec > 0
    /\ script[1].sentences[3].duration_sec > 0

\* A step change: the buttons "next" and "previous" and the sidebar.
Navigation == next_step \/ prev_step \/ \E index \in 0..TTS_STEP : SidebarClick(index)

\* C29: wizard navigation preserves the script: at every step change made
\* with the raw text as it was, the sentences of state.script stay the ones
\* they were (insertions and deletions kept), with the texts given them in
\* the edit step and the duration_sec, start_sec and audio_path assigned by
\* synthesis.
C29_NavigationPreservesScript ==
    [][(Navigation /\ script # <<>>) =>
          /\ Len(script') = Len(script)
          /\ \A p \in 1..Len(script) :
                /\ Len(script'[p].sentences) = Len(script[p].sentences)
                /\ \A i \in 1..Len(script[p].sentences) :
                      LET before == script[p].sentences[i]
                          after == script'[p].sentences[i]
                      IN /\ after.uid = before.uid
                         /\ after.text = IF before.uid \in Retexted /\ nav.current_step = EDIT_STEP
                                         THEN strip(edit._sentence_items[i])
                                         ELSE before.text
                         /\ after.duration_sec = before.duration_sec
                         /\ after.start_sec = before.start_sec
                         /\ after.audio_path = before.audio_path]_vars

\* The k-th sentence of the canonical sequence of s.
SentenceAt(s, k) == s[Flatten(s, 1)[k].page].sentences[Flatten(s, 1)[k].sent]

\* The sentences of the script are, in order, the ones submitted in Phase 1.
SameSequence ==
    /\ script # <<>>
    /\ Len(Flatten(script, 1)) = Len(all_sentences)
    /\ \A k \in 1..Len(all_sentences) : SentenceAt(script, k).uid = all_sentences[k].uid

\* C25: a sentence carries an audio_path only while its latest synthesis
\* succeeded: after the walk of a run over the sentences it submitted, the
\* sentences with an audio_path are exactly the ones whose synthesis
\* succeeded in that run, and a sentence given the silence substitute has
\* none.
C25_AudioPathOnlyAfterSuccess ==
    [][(WorkerWalk /\ SameSequence) =>
          \A k \in 1..Len(synth_results) :
              (SentenceAt(script', k).audio_path # <<>>) <=> Succeeded(synth_results[k])]_vars

\* C26: Phase 2 consumes the results along the sequence Phase 1 flattened:
\* the k-th sentence it times is the one submitted as task k and it walks
\* as many sentences as there are result slots, whatever the edit step did
\* during the run.
C26_WalkFollowsSubmission ==
    [][WorkerWalk =>
          /\ SameSequence
          /\ Len(Flatten(script, 1)) = Len(synth_results)
          /\ pending' = Append(pending, <<"synthesis_complete">>)]_vars

\* A raw text with content before its first header, which is numbered 1:
\* abcd / Page1:efgh.  parse_script gives the content the implicit page
\* number 1 and the header its own number 1.
LeadingText ==
    <<"a", "b", "c", "d", "\n", "P", "a", "g", "e", "1", ":", "e", "f", "g", "h">>

\* The wizard of InitWizard, with LeadingText typed in the script step.
InitLeading ==
    /\ script = <<>>
    /\ files = <<>>
    /\ tts_workers = 1
    /\ engine_sr = RateHigh
    /\ pause_sec = SENTENCE_PAUSE_SEC
    /\ pc = "start"
    /\ all_sentences = <<>>
    /\ synth_results = <<>>
    /\ futures = <<>>
    /\ completed_count = 0
    /\ actual_sr = None
    /\ global_cursor = 0
    /\ sentence_idx = 0
    /\ page_pos = 1
    /\ sent_pos = 0
    /\ page_segments = <<>>
    /\ results = <<>>
    /\ pause_var = pause_sec
    /\ StepInit
    /\ call = NoCall
    /\ ret = None
    /\ nav = [current_step |-> SCRIPT_STEP, max_reached |-> SCRIPT_STEP, raw |-> LeadingText,
              slides |-> 2]
    /\ edit = NoEdit

SpecLeading == InitLeading /\ [][NextWizard]_vars

\* C27: within one run distinct sentences are persisted to distinct
\* sentence files and distinct pages to distinct page files: after the walk
\* of a run no two sentences carry the same audio_path and no two pages have
\* the same page file.
C27_DistinctArtifacts ==
    [][(WorkerWalk /\ SameSequence) =>
          /\ \A k, j \in 1..Len(synth_results) :
                (/\ k # j
                 /\ Succeeded(synth_results[k])
                 /\ Succeeded(synth_results[j]))
                    => SentenceAt(script', k).audio_path # SentenceAt(script', j).audio_path
          /\ \A p, q \in 1..Len(script) :
                p # q => PagePath(script[p].page_number) # PagePath(script[q].page_number)]_vars

\* C28: regenerating a sentence and then reverting it is a round trip.  The
\* revert writes no sentence file: it gives the sentence the text, the
\* audio_path and the duration_sec of the backup taken when the regeneration
\* was requested.  So the audio stored at the restored audio_path is the one
\* from before the regeneration exactly when the regeneration has left that
\* file as it was.
C28_RegenRevertRoundTrip ==
    [][/\ RegenApply =>
             \A b \in Backup(worker.key) :
                 (b.audio_path # None /\ b.audio_path[1] \in DOMAIN files)
                     => /\ b.audio_path[1] \in DOMAIN files'
                        /\ files'[b.audio_path[1]] = files[b.audio_path[1]]
       /\ \A key \in Keys(script) :
             Revert(key) =>
                 \A b \in Backup(key) :
                     /\ _get_sentence(script', key).text = b.text
                     /\ _get_sentence(script', key).audio_path = b.audio_path
                     /\ _get_sentence(script', key).duration_sec = b.duration_sec]_vars

\* The scheduling the synthesis step relies on: a started thread runs to its
\* end (the synthesis calls return), and the event loop of the UI thread runs
\* the handlers and the callbacks queued with after(0, ...) in order.
\* The thread of a full synthesis is one step, enabled exactly while
\* worker.kind = "synth" and ending with worker = NoWorker, so weak fairness
\* of that step is []<>(worker.kind # "synth"), written here by its meaning.
Scheduling ==
    /\ []<>(worker.kind # "synth")
    /\ WF_vars(RegenSynthesize)
    /\ WF_vars(RegenApply)
    /\ WF_vars(RegenRecalculate)
    /\ WF_vars(RevertRecalculate)
    /\ WF_vars(OnSynthesisComplete)
    /\ WF_vars(OnSynthesisError)
    /\ WF_vars(OnRegenComplete)
    /\ WF_vars(OnRegenError)

\* The synthesis step over a script of one page: full runs on a disk that
\* may fail, regenerations with a text the engine accepts and one it
\* rejects, reverts.
RegenTexts == {"boom", "a"}

InitScheduled ==
    /\ InitUI
    /\ Len(script) = 1
    /\ engine_sr = RateHigh

NextScheduled ==
    \/ StartSynthesis
    \/ \E fault \in IOFaults : SynthesisWorkerIO(fault)
    \/ OnSynthesisComplete
    \/ OnSynthesisError
    \/ \E key \in Keys(script), new_text \in RegenTexts : Regenerate(key, new_text)
    \/ RegenSynthesize
    \/ RegenApply
    \/ RegenRecalculate
    \/ OnRegenComplete
    \/ OnRegenError
    \/ \E key \in Keys(script) : Revert(key)
    \/ RevertRecalculate

SpecScheduled == InitScheduled /\ [][NextScheduled]_vars /\ Scheduling

\* C30: every started background worker, full synthesis or regeneration of
\* one sentence, succeeding or raising, leads to the busy flag
\* _is_synthesizing cleared on the UI thread, so no later request is blocked
\* forever by the flag.
C30_BusyFlagCleared == is_synthesizing ~> ~is_synthesizing

\* The flag is set, the worker has raised and ended, and its error callback
\* waits in the queue of the UI thread.
C30_Witness ==
    /\ is_synthesizing
    /\ worker = NoWorker
    /\ pending # <<>>
    /\ Head(pending)[1] \in {"synthesis_error", "regen_error"}

====
